---- MODULE Spec2Model ----
(***************************************************************************)
(* PropScraper ingestion pipeline: the Zonaprop connector (pagination and  *)
(* normalisation), the multi-zone orchestrator and the SQLAlchemy sink.    *)
(* The model follows src/propscrape/connectors/zonaprop.py and             *)
(* src/propscrape/services/ingestion.py with the SQLite configuration of   *)
(* src/propscrape/core/database.py (SessionLocal bound to an engine).      *)
(***************************************************************************)
EXTENDS Integers, Sequences, FiniteSets, TLC

(***************************************************************************)
(* Bounds of the model.                                                    *)
(***************************************************************************)
\* Upstream items served to one run, over all its pages and combinations.
MaxItemsTotal == 2
\* Largest max_pages argument passed by a caller.
MaxPagesArg == 2
\* Calls of save_listing_to_db in the sink-only specification.
MaxSaves == 3

(***************************************************************************)
(* Python values.  An Optional[T] is None (the empty tuple) or Some(x).    *)
(* A member of a JSON object is absent, null, a value of the type the code  *)
(* expects there (JObj: a dict, a list, a string) or a value of another     *)
(* type (JVal).                                                            *)
(***************************************************************************)
None == <<>>
Some(x) == <<x>>
Val(o) == o[1]

JAbsent == [j |-> "absent"]
JNull == [j |-> "null"]
JObj(v) == [j |-> "obj", v |-> v]
JVal(w) == [j |-> "val", v |-> w]

\* A JSON value as Python holds it: None, a bool, an int, a str, or a value
\* of another type, a list or a dict (truthy when it is not empty).
PyNone == [t |-> "null"]
PyBool(b) == [t |-> "bool", b |-> b]
PyInt(n) == [t |-> "int", n |-> n]
Str(chars) == [t |-> "str", str |-> chars]
PyOther(truthy) == [t |-> "other", truthy |-> truthy]
\* bool(v)
Truthy(v) ==
  CASE v.t = "null" -> FALSE
    [] v.t = "bool" -> v.b
    [] v.t = "int" -> v.n # 0
    [] v.t = "str" -> v.str # <<>>
    [] v.t = "other" -> v.truthy

\* Python truthiness of an Optional[int]: None and 0 are falsy.
TruthyInt(o) == o # None /\ Val(o) # 0

(***************************************************************************)
(* Zone / operation catalog (zones_config.py).                             *)
(***************************************************************************)
ZONES_CONFIG ==
  [capital_federal |-> [province_code |-> "6", zone_code |-> None],
   zona_norte_gba  |-> [province_code |-> "990", zone_code |-> None],
   santa_fe        |-> [province_code |-> "25", zone_code |-> None],
   cordoba         |-> [province_code |-> "7", zone_code |-> None],
   mendoza         |-> [province_code |-> "17", zone_code |-> None],
   entre_rios      |-> [province_code |-> "12", zone_code |-> None]]

OPERATION_TYPES ==
  [sale |-> [code |-> "1"],
   rent |-> [code |-> "2"]]

\* ZONES_TO_SCRAPE and OPERATIONS_TO_SCRAPE: every key of the two catalogs,
\* in the order of the dict.
ZONES_TO_SCRAPE ==
  <<"capital_federal", "zona_norte_gba", "santa_fe", "cordoba", "mendoza",
    "entre_rios">>
OPERATIONS_TO_SCRAPE == <<"sale", "rent">>
\* "list or default": None and the empty list are falsy.
OrDefault(list, default) == IF list = <<>> THEN default ELSE list

\* The provider's page size (ZonapropConnector.listings_per_page).
listings_per_page == 30

(***************************************************************************)
(* Unified record model (models.py).                                       *)
(***************************************************************************)
\* Variant of Platforms with a literal that holds the key separator.
PlatformsWithSeparator ==
  {"zonaprop", "mercadolibre", "properati", "argenprop", "zonaprop_ar"}
\* platform: Literal["zonaprop", "mercadolibre", "properati", "argenprop"]
Platforms == {"zonaprop", "mercadolibre", "properati", "argenprop"}
Currencies == {"ARS", "USD", "EUR"}

\* Field(ge=lo, le=hi) on an Optional number.
InRange(o, lo, hi) == o = None \/ (Val(o) >= lo /\ Val(o) <= hi)
\* A float is the double the code holds, written as Python's repr writes it:
\* the shortest decimal that reads back as that double, kept as a sign, its
\* significant digits (values 0 to 9, the first and the last not 0, none for
\* zero) and the decimal exponent of the first digit. 8.5 is
\* [neg |-> FALSE, digits |-> <<8, 5>>, exp |-> 0], -0.0 is
\* [neg |-> TRUE, digits |-> <<>>, exp |-> 0]. The floats that are not
\* finite are Inf(1), Inf(-1) and NaN. An int of any size is kept the same
\* way, with all its digits but the trailing zeros.
Finite(neg, digits, exp) == [neg |-> neg, digits |-> digits, exp |-> exp]
Inf(sign) == [inf |-> sign]
NaN == [nan |-> TRUE]
IsFinite(x) == "digits" \in DOMAIN x
IsZero(x) == IsFinite(x) /\ x.digits = <<>>
\* v < 0 of validate_non_negative and validate_count, as IEEE 754 compares:
\* -0.0 and NaN are not below zero.
Negative(x) ==
  \/ IsFinite(x) /\ x.neg /\ x.digits # <<>>
  \/ "inf" \in DOMAIN x /\ x.inf < 0
\* Field(ge=0) and validate_count on an Optional[int].
NonNegative(o) == o = None \/ ~Negative(Val(o))

\* UnifiedListing.validate_coordinates: both present or both None.
validate_coordinates(f) == (f.geo_lat = None) = (f.geo_lng = None)

\* status: Literal["active", "delisted", "paused", "sold", "rented"]
Statuses == {"active", "delisted", "paused", "sold", "rented"}
\* A field of type str, and one of type Optional[str]: pydantic takes a str
\* only, a number or a list is not converted.
IsStr(v) == v.t = "str"
IsOptionalStr(v) == v.t \in {"null", "str"}
\* Variant of FloatNonNegative for a model without the ge=0 constraint.
FloatUnchecked(o) == TRUE
\* Field(ge=0) and validate_non_negative on an Optional[float] that may be
\* an infinity or a NaN: a NaN is not greater than or equal to 0, -0.0 and
\* the positive infinity are.
FloatNonNegative(o) == o = None \/ (Val(o) # NaN /\ ~Negative(Val(o)))

\* UnifiedListing(**f) constructs (TRUE) or raises ValidationError (FALSE).
UnifiedListingValid(f) ==
  /\ f.platform \in Platforms
  /\ f.operation_type \in {"sale", "rent"}
  /\ IsStr(f.property_type)
  /\ f.currency \in Currencies
  /\ f.status \in Statuses
  /\ FloatNonNegative(f.price)
  /\ FloatNonNegative(f.expenses)
  /\ IsOptionalStr(f.address_text)
  /\ IsOptionalStr(f.title)
  /\ IsOptionalStr(f.description)
  /\ \A i \in 1..Len(f.images) : IsStr(f.images[i])
  /\ IsOptionalStr(f.agent_publisher)
  /\ InRange(f.geo_lat, -90, 90)
  /\ InRange(f.geo_lng, -180, 180)
  /\ validate_coordinates(f)
  /\ FloatNonNegative(f.surface_total)
  /\ FloatNonNegative(f.surface_covered)
  /\ NonNegative(f.rooms) /\ NonNegative(f.bedrooms) /\ NonNegative(f.bathrooms)

(***************************************************************************)
(* Normaliser: the body of the per-posting try block of fetch_listings.    *)
(* A posting is [type |-> "other"] (not a dict: None, a string, a list)    *)
(* or a dict with the members the code reads.                              *)
(***************************************************************************)
\* An identifier member is None (absent or null), a bool, an int or a text,
\* the text an ASCII string.
IdText(s) == [t |-> "text", s |-> s]
IdTruthy(v) == IF v.t = "text" THEN v.s # "" ELSE Truthy(v)
\* str(listing_id) of line 271.
IdStr(v) ==
  CASE v.t = "text" -> v.s
    [] v.t = "int" -> ToString(v.n)
    [] v.t = "bool" -> IF v.b THEN "True" ELSE "False"
\* listing_id = posting.get("postingId") or posting.get("id") or "",
\* then str(listing_id) if listing_id else "".
ListingIdOf(posting) ==
  IF IdTruthy(posting.postingId) THEN IdStr(posting.postingId)
  ELSE IF IdTruthy(posting.id) THEN IdStr(posting.id)
  ELSE ""

\* A Python str is the sequence of its code points (0 to 1114111): "Venta" is
\* <<86, 101, 110, 116, 97>>.
\* s[a:b]
Slice(s, a, b) ==
  LET hi == IF b < Len(s) THEN b ELSE Len(s)
  IN IF a >= hi THEN <<>> ELSE SubSeq(s, a + 1, hi)

\* op_name = name.lower(); "alquiler" in op_name (lines 292-293).
\* str.lower() gives an ASCII capital its small letter (code point + 32) and
\* leaves every other ASCII character alone. Of the characters beyond ASCII
\* one only, U+0130, lowers to a string that holds a letter of "alquiler"
\* ("i" followed by U+0307), and there the "i" is never followed by "l". So
\* op_name holds "alquiler" exactly when name holds the eight letters in
\* a row, each one small or capital.
IsRental(name) ==
  LET word == <<97, 108, 113, 117, 105, 108, 101, 114>>  \* "alquiler"
  IN \E i \in 0..(Len(name) - Len(word)) :
       \A j \in 1..Len(word) : name[i + j] \in {word[j], word[j] - 32}

\* Section 6: posting.get("postingLocation", {}).get("postingGeolocation", {})
\* .get("geolocation", {}); a member that is not a dict makes the next .get
\* raise.
GeoOf(posting) ==
  LET NoGeo == [ok |-> TRUE, latitude |-> None, longitude |-> None]
      Bad == [ok |-> FALSE, latitude |-> None, longitude |-> None]
      loc == posting.postingLocation
  IN IF loc.j = "absent" THEN NoGeo
     ELSE IF loc.j # "obj" THEN Bad
     ELSE LET pg == loc.v.postingGeolocation
          IN IF pg.j = "absent" THEN NoGeo
             ELSE IF pg.j # "obj" THEN Bad
             ELSE LET g == pg.v.geolocation
                  IN IF g.j = "absent" THEN NoGeo
                     ELSE IF g.j # "obj" THEN Bad
                     ELSE [ok |-> TRUE, latitude |-> g.v.latitude,
                           longitude |-> g.v.longitude]

\* The ASCII digits, the only ones the C parser of fromisoformat reads.
Digits == 48..57
\* The code points of the digit zero of every script (Unicode 15.1, general
\* category Nd): the nine that follow each are its digits one to nine.
DecimalZeros ==
  {48, 1632, 1776, 1984, 2406, 2534, 2662, 2790, 2918, 3046, 3174, 3302, 3430,
   3558, 3664, 3792, 3872, 4160, 4240, 6112, 6160, 6470, 6608, 6784, 6800,
   6992, 7088, 7232, 7248, 42528, 43216, 43264, 43472, 43504, 43600, 44016,
   65296, 66720, 68912, 69734, 69872, 69942, 70096, 70384, 70736, 70864,
   71248, 71360, 71472, 71904, 72016, 72784, 73040, 73120, 73552, 92768,
   92864, 93008, 120782, 120792, 120802, 120812, 120822, 123200, 123632,
   124144, 125264, 130032}
\* str.isdecimal() of one character.
IsDecimal(c) == \E z \in DecimalZeros : c >= z /\ c <= z + 9
\* Its value.
DigitVal(c) == c - (CHOOSE z \in DecimalZeros : c >= z /\ c <= z + 9)
\* The characters of numeric type Digit that are not decimal (superscripts,
\* subscripts, circled digits and the like), as ranges of code points.
OtherDigits ==
  {<<178, 179>>, <<185, 185>>, <<4969, 4977>>, <<6618, 6618>>, <<8304, 8304>>,
   <<8308, 8313>>, <<8320, 8329>>, <<9312, 9320>>, <<9332, 9340>>,
   <<9352, 9360>>, <<9450, 9450>>, <<9461, 9469>>, <<9471, 9471>>,
   <<10102, 10110>>, <<10112, 10120>>, <<10122, 10130>>, <<68160, 68163>>,
   <<69216, 69224>>, <<69714, 69722>>, <<127232, 127242>>}
\* str.isdigit() of one character: numeric type Decimal or Digit.
IsDigit(c) == IsDecimal(c) \/ \E r \in OtherDigits : c >= r[1] /\ c <= r[2]

\* str.replace(".", "")
WithoutDots(s) == SelectSeq(s, LAMBDA c : c # 46)
\* str.isdigit()
isdigit(s) == s # <<>> /\ \A i \in 1..Len(s) : IsDigit(s[i])
\* The number of "." in the string.
DotCount(s) == Len(s) - Len(WithoutDots(s))

\* The value of a string of decimal digits.
RECURSIVE DecimalOf(_)
DecimalOf(s) ==
  IF s = <<>> THEN 0
  ELSE 10 * DecimalOf(SubSeq(s, 1, Len(s) - 1)) + DigitVal(s[Len(s)])

\* Whole numbers of any size are sequences of decimal digits, the most
\* significant first, without leading zeros; <<>> is 0.
ZerosAtEnd(ds) ==
  LET nz == {i \in 1..Len(ds) : ds[i] # 0 /\ \A j \in (i + 1)..Len(ds) : ds[j] = 0}
  IN IF nz = {} THEN Len(ds) ELSE Len(ds) - (CHOOSE i \in nz : TRUE)
ZerosAtStart(ds) ==
  LET nz == {i \in 1..Len(ds) : ds[i] # 0 /\ \A j \in 1..(i - 1) : ds[j] = 0}
  IN IF nz = {} THEN Len(ds) ELSE (CHOOSE i \in nz : TRUE) - 1
Zeros(n) == [i \in 1..n |-> 0]
\* 2 * ds: the carry into a digit is 1 when the digit after it is 5 or more.
Double(ds) ==
  LET n == Len(ds)
      body == [i \in 1..n |->
                 (2 * ds[i] + (IF i < n /\ ds[i + 1] >= 5 THEN 1 ELSE 0)) % 10]
  IN IF n > 0 /\ ds[1] >= 5 THEN <<1>> \o body ELSE body
\* ds \div 2
Halve(ds) ==
  LET n == Len(ds)
      body == [i \in 1..n |->
                 (ds[i] + (IF i > 1 /\ ds[i - 1] % 2 = 1 THEN 10 ELSE 0)) \div 2]
  IN IF n > 0 /\ ds[1] = 1 THEN SubSeq(body, 2, n) ELSE body
Odd(ds) == ds # <<>> /\ ds[Len(ds)] % 2 = 1
\* a < b
Less(a, b) ==
  \/ Len(a) < Len(b)
  \/ /\ Len(a) = Len(b)
     /\ \E i \in 1..Len(a) : a[i] < b[i] /\ \A j \in 1..(i - 1) : a[j] = b[j]
\* ds + 1
Succ(ds) ==
  LET n == Len(ds)
      nines == ZerosAtEnd([i \in 1..n |-> 9 - ds[i]])
  IN IF nines = n THEN <<1>> \o Zeros(n)
     ELSE [i \in 1..n |-> IF i < n - nines THEN ds[i]
                          ELSE IF i = n - nines THEN ds[i] + 1 ELSE 0]

\* ds * 2^n, ds \div 2^n and ds * 5^n, by halves of n.
RECURSIVE Doubled(_, _)
Doubled(ds, n) ==
  IF n = 0 \/ ds = <<>> THEN ds
  ELSE IF n = 1 THEN Double(ds)
  ELSE Doubled(Doubled(ds, n \div 2), n - n \div 2)
RECURSIVE Halved(_, _)
Halved(ds, n) ==
  IF n = 0 \/ ds = <<>> THEN ds
  ELSE IF n = 1 THEN Halve(ds)
  ELSE Halved(Halved(ds, n \div 2), n - n \div 2)
RECURSIVE Fived(_, _)
Fived(ds, n) ==
  IF n = 0 \/ ds = <<>> THEN ds
  ELSE IF n = 1 THEN Halve(ds \o <<0>>)
  ELSE Fived(Fived(ds, n \div 2), n - n \div 2)

\* A double is M * 2^E with M < 2^53 and E >= -1074, and M >= 2^52 unless
\* E = -1074 (a subnormal number, or zero).
Two53 == <<9, 0, 0, 7, 1, 9, 9, 2, 5, 4, 7, 4, 0, 9, 9, 2>>
Two52 == <<4, 5, 0, 3, 5, 9, 9, 6, 2, 7, 3, 7, 0, 4, 9, 6>>
MinExp == -1074
MaxExp == 971
\* Round to nearest, ties to even: up says that what was cut off is more
\* than half of the last place, tie that it is exactly half. S is M + 1.
Carried(S, E) ==
  IF S = Two53 THEN [M |-> Two52, E |-> E + 1] ELSE [M |-> S, E |-> E]
Rounded(M, E, up, tie) ==
  IF up \/ (tie /\ Odd(M)) THEN Carried(Succ(M), E) ELSE [M |-> M, E |-> E]
\* A whole number of 2^53 or more is halved until it is below 2^53; r is the
\* bit cut off last, s says that a bit cut off before it was set. Sixteen
\* bits are cut off at once while what is left, H, stays 2^53 or more.
RECURSIVE HalveDown(_, _, _, _)
HalveMore(N, H, E, rs) ==
  IF Less(H, Two53)
  THEN (IF rs THEN HalveDown(Halve(N), E + 1, Odd(N), TRUE)
        ELSE HalveDown(Halve(N), E + 1, Odd(N), FALSE))
  ELSE IF rs \/ Doubled(H, 16) # N THEN HalveDown(H, E + 16, TRUE, FALSE)
  ELSE HalveDown(H, E + 16, FALSE, FALSE)
HalveDown(N, E, r, s) ==
  IF Less(N, Two53) THEN Rounded(N, E, r /\ s, r /\ ~s)
  ELSE IF E > MaxExp THEN [M |-> N, E |-> E]
  ELSE HalveMore(N, Halved(N, 16), E, s \/ r)
\* D / 10^p below 2^53, D already doubled k times: the whole part of it and
\* the p digits after it, rounded.
Quotient(D, k, p) ==
  LET M == SubSeq(D, 1, Len(D) - p)
      R == IF Len(D) >= p THEN SubSeq(D, Len(D) - p + 1, Len(D))
           ELSE Zeros(p - Len(D)) \o D
      rest == \E i \in 2..p : R[i] # 0
  IN IF p = 0 THEN [M |-> D, E |-> 0 - k]
     ELSE Rounded(M, 0 - k, R[1] > 5 \/ (R[1] = 5 /\ rest), R[1] = 5 /\ ~rest)
\* D / 10^p below 2^53 is doubled while it stays below 2^53, 1074 times at
\* most, sixteen times at once while it can be; D16 is D * 2^16, D2 is
\* D * 2 and limit is 2^53 * 10^p.
RECURSIVE DoubleUp(_, _, _, _)
DoubleMore(D, D16, D2, k, p, limit) ==
  IF k + 16 <= 0 - MinExp /\ Less(D16, limit) THEN DoubleUp(D16, k + 16, p, limit)
  ELSE IF k < 0 - MinExp /\ Less(D2, limit) THEN DoubleUp(D2, k + 1, p, limit)
  ELSE Quotient(D, k, p)
DoubleUp(D, k, p, limit) == DoubleMore(D, Doubled(D, 16), Double(D), k, p, limit)
\* The double nearest to N / 10^p, N a whole number that is not 0: the whole
\* part of it is halved when it is 2^53 or more, and N is doubled else.
Binary(N, p) ==
  IF Len(N) > p /\ ~Less(SubSeq(N, 1, Len(N) - p), Two53)
  THEN HalveDown(SubSeq(N, 1, Len(N) - p), 0, FALSE,
                 \E i \in (Len(N) - p + 1)..Len(N) : N[i] # 0)
  ELSE DoubleUp(N, 0, p, Two53 \o Zeros(p))
\* The double nearest to D * 10^e10.
ToDouble(D, e10) ==
  Binary(D \o Zeros(IF e10 > 0 THEN e10 ELSE 0), IF e10 < 0 THEN 0 - e10 ELSE 0)

\* The digits of M * 2^E for E >= 0, and of M * 5^(-E) for E < 0 (the
\* digits of M * 2^E without the point, -E of them after it).
Expansion(M, E) == IF E >= 0 THEN Doubled(M, E) ELSE Fived(M, 0 - E)

\* The decimals of n digits that read back as the double d, the nearest to
\* it when two of them do: lo are the first n digits of d, rem the digits
\* after them, e10 the exponent of the last digit of lo.
Candidate(d, lo, rem, e10) ==
  LET ok == {c \in {lo, Succ(lo)} : ToDouble(c, e10) = d}
      rest == \E i \in 2..Len(rem) : rem[i] # 0
      nearer_hi == rem[1] > 5 \/ (rem[1] = 5 /\ (rest \/ Odd(lo)))
  IN IF Cardinality(ok) = 2 THEN (IF nearer_hi THEN <<Succ(lo)>> ELSE <<lo>>)
     ELSE IF ok = {} THEN <<>>
     ELSE <<CHOOSE c \in ok : TRUE>>
\* The shortest decimal that reads back as the double d: X are the digits of
\* d, e10 the exponent of the last of them, best the shortest decimal found
\* so far. When a length has a decimal that reads back as d, so has every
\* greater length: the lengths lo to hi are still to be tried, the greater
\* ones have a decimal and the smaller ones have none.
RECURSIVE Shortest(_, _, _, _, _, _)
ShortestFrom(d, X, e10, lo, hi, n, best, c) ==
  Shortest(d, X, e10,
           IF c = <<>> THEN n + 1 ELSE lo,
           IF c = <<>> THEN hi ELSE n - 1,
           IF c = <<>> THEN best
           ELSE [digits |-> c[1], e10 |-> e10 + Len(X) - n])
ShortestAt(d, X, e10, lo, hi, n, best) ==
  ShortestFrom(d, X, e10, lo, hi, n, best,
               Candidate(d, SubSeq(X, 1, n), SubSeq(X, n + 1, Len(X)),
                         e10 + Len(X) - n))
Shortest(d, X, e10, lo, hi, best) ==
  IF lo > hi THEN best ELSE ShortestAt(d, X, e10, lo, hi, (lo + hi) \div 2, best)

\* The float of the digits ds (not all 0) with the exponent e10 for the last
\* of them, trailing zeros dropped.
Normal(neg, ds, e10) ==
  Finite(neg, SubSeq(ds, 1, Len(ds) - ZerosAtEnd(ds)), e10 + Len(ds) - 1)
\* The double d as a float.
Repr(neg, d) ==
  IF d.M = <<>> THEN Finite(neg, <<>>, 0)
  ELSE IF d.E > MaxExp THEN Inf(IF neg THEN -1 ELSE 1)
  ELSE LET X == Expansion(d.M, d.E)
           x10 == IF d.E < 0 THEN d.E ELSE 0
           z == ZerosAtEnd(X)
           s == Shortest(d, SubSeq(X, 1, Len(X) - z), x10 + z, 1,
                         IF Len(X) - z > 17 THEN 17 ELSE Len(X) - z - 1,
                         [digits |-> SubSeq(X, 1, Len(X) - z), e10 |-> x10 + z])
       IN Normal(neg, s.digits, s.e10)
\* The float nearest to the whole number ds (without leading zeros) times
\* 10^e10. A number of 15 digits or fewer in the range of the normal doubles
\* is its own shortest decimal (DBL_DIG is 15); one of 1e309 or more is
\* infinite, one below 1e-324 is zero.
Nearest(neg, ds, e10) ==
  LET n == Len(ds) - ZerosAtEnd(ds)
      adj == e10 + Len(ds) - 1
  IN IF ds = <<>> THEN Finite(neg, <<>>, 0)
     ELSE IF adj > 308 THEN Inf(IF neg THEN -1 ELSE 1)
     ELSE IF adj < -324 THEN Finite(neg, <<>>, 0)
     ELSE IF n <= 15 /\ adj >= -307 /\ adj <= 307 THEN Normal(neg, ds, e10)
     ELSE Repr(neg, ToDouble(ds, e10))

RECURSIVE Pow10(_)
Pow10(k) == IF k = 0 THEN 1 ELSE 10 * Pow10(k - 1)
\* The decimal digits of a whole number n > 0.
RECURSIVE NatDigits(_)
NatDigits(n) == IF n = 0 THEN <<>> ELSE Append(NatDigits(n \div 10), n % 10)
\* The float m / 10^k of an int m: int(0) is 0.0, never -0.0.
Dec(m, k) ==
  IF m = 0 THEN Finite(FALSE, <<>>, 0)
  ELSE Normal(m < 0, NatDigits(IF m < 0 THEN 0 - m ELSE m), 0 - k)
\* The digits of the double d, a whole number.
Exact(d) == Expansion(d.M, d.E)
\* int(x) of a finite float, kept as the floats are: the digits before the
\* point of a float below 10^16 (its shortest decimal has the whole part of
\* the double), the digits of the double itself from there on.
Trunc(x) ==
  IF x.digits = <<>> \/ x.exp < 0 THEN Finite(FALSE, <<>>, 0)
  ELSE IF x.exp <= 15
  THEN (IF Len(x.digits) <= x.exp + 1 THEN x
        ELSE Normal(x.neg, SubSeq(x.digits, 1, x.exp + 1), 0))
  ELSE Normal(x.neg, Exact(ToDouble(x.digits, x.exp - Len(x.digits) + 1)), 0)

\* float(str), as float_from_string of CPython reads it. First every
\* character beyond ASCII becomes a space (for white space), its ASCII digit
\* (for a decimal digit) or "?".
SpacesBeyondAscii ==
  {133, 160, 5760, 8232, 8233, 8239, 8287, 12288} \cup (8192..8202)
ToAscii(c) ==
  IF c < 127 THEN c
  ELSE IF c \in SpacesBeyondAscii THEN 32
  ELSE IF IsDecimal(c) THEN 48 + DigitVal(c)
  ELSE 63
\* An underscore stands between two digits only; the underscores are then
\* dropped.
UnderscoresOk(t) ==
  \A i \in 1..Len(t) :
    t[i] = 95 => /\ i > 1 /\ t[i - 1] \in Digits
                 /\ i < Len(t) /\ t[i + 1] \in Digits
\* The white space of C at both ends is dropped.
CSpaces == {9, 10, 11, 12, 13, 32}
StripSpaces(t) ==
  LET inner == {i \in 1..Len(t) : t[i] \notin CSpaces}
  IN IF inner = {} THEN <<>>
     ELSE SubSeq(t, CHOOSE i \in inner : \A j \in inner : i <= j,
                    CHOOSE i \in inner : \A j \in inner : i >= j)
\* The ASCII letters in small.
FoldAscii(t) ==
  [i \in 1..Len(t) |-> IF t[i] >= 65 /\ t[i] <= 90 THEN t[i] + 32 ELSE t[i]]
FloatRaises == [raises |-> TRUE, value |-> None]
FloatIs(x) == [raises |-> FALSE, value |-> Some(x)]
\* The exponent after "e": an optional sign and at least one digit.
ExponentOk(e) ==
  LET digits == IF e # <<>> /\ e[1] \in {43, 45} THEN Tail(e) ELSE e
  IN digits # <<>> /\ \A i \in 1..Len(digits) : digits[i] \in Digits
\* Its value; an exponent of more than six digits is one of 999999, which
\* gives the same float for a mantissa of fewer than 600000 digits.
ExponentSize(digits) ==
  IF Len(digits) - ZerosAtStart([i \in 1..Len(digits) |-> digits[i] - 48]) > 6
  THEN 999999 ELSE DecimalOf(digits)
ExponentOf(e) ==
  IF e[1] = 45 THEN 0 - ExponentSize(Tail(e))
  ELSE IF e[1] = 43 THEN ExponentSize(Tail(e)) ELSE ExponentSize(e)
\* The mantissa: digits with at most one ".", one digit at least.
MantissaOk(m) ==
  /\ WithoutDots(m) # <<>>
  /\ \A i \in 1..Len(WithoutDots(m)) : WithoutDots(m)[i] \in Digits
  /\ DotCount(m) <= 1
\* The digits after the ".".
FractionLen(m) ==
  IF DotCount(m) = 0 THEN 0
  ELSE Len(m) - (CHOOSE i \in 1..Len(m) : m[i] = 46)
\* The double nearest to sign * digits / 10^k * 10^e, digits the characters
\* of the mantissa without its ".".
Scaled(sign, digits, k, e) ==
  Nearest(sign < 0,
          SubSeq([i \in 1..Len(digits) |-> digits[i] - 48],
                 ZerosAtStart([i \in 1..Len(digits) |-> digits[i] - 48]) + 1,
                 Len(digits)),
          e - k)
\* The number body (after the sign), split at its first "e" or "E".
NumberOf(sign, body) ==
  LET marks == {i \in 1..Len(body) : body[i] \in {69, 101}}
      at == IF marks = {} THEN Len(body) + 1
            ELSE CHOOSE i \in marks : \A j \in marks : i <= j
      m == SubSeq(body, 1, at - 1)
      e == SubSeq(body, at + 1, Len(body))
  IN IF ~MantissaOk(m) THEN FloatRaises
     ELSE IF marks # {} /\ ~ExponentOk(e) THEN FloatRaises
     ELSE FloatIs(Scaled(sign, WithoutDots(m), FractionLen(m),
                         IF marks = {} THEN 0 ELSE ExponentOf(e)))
\* The text after the sign: "inf", "infinity" or "nan" in any case, or a
\* number.
SignedOf(sign, body) ==
  IF FoldAscii(body) \in {<<105, 110, 102>>,                        \* "inf"
                          <<105, 110, 102, 105, 110, 105, 116, 121>>} \* "infinity"
  THEN FloatIs(Inf(sign))
  ELSE IF FoldAscii(body) = <<110, 97, 110>> THEN FloatIs(NaN)      \* "nan"
  ELSE NumberOf(sign, body)
\* The text without white space: an optional sign and the rest.
StrippedOf(t) ==
  IF t = <<>> THEN FloatRaises
  ELSE SignedOf(IF t[1] = 45 THEN -1 ELSE 1,
                IF t[1] \in {43, 45} THEN Tail(t) ELSE t)
float_from_string(s) ==
  LET t == [i \in 1..Len(s) |-> ToAscii(s[i])]
  IN IF ~UnderscoresOk(t) THEN FloatRaises
     ELSE StrippedOf(StripSpaces(SelectSeq(t, LAMBDA c : c # 95)))
\* float(v): TypeError for None, a list or a dict.
float(v) ==
  CASE v.t = "null" -> FloatRaises
    [] v.t = "bool" -> FloatIs(Dec(IF v.b THEN 1 ELSE 0, 0))
    [] v.t = "int" -> FloatIs(Dec(v.n, 0))
    [] v.t = "str" -> float_from_string(v.str)
    [] v.t = "other" -> FloatRaises

\* str(v) for None, a bool or an int: "None", "True", "False" and the digits
\* of the int after its sign. The str() of a list or a dict starts with a
\* bracket.
RECURSIVE DigitsOf(_)
DigitsOf(n) ==
  IF n < 10 THEN <<48 + n>> ELSE Append(DigitsOf(n \div 10), 48 + (n % 10))
str(v) ==
  CASE v.t = "null" -> <<78, 111, 110, 101>>                 \* "None"
    [] v.t = "bool" -> IF v.b THEN <<84, 114, 117, 101>>     \* "True"
                       ELSE <<70, 97, 108, 115, 101>>        \* "False"
    [] v.t = "int" -> IF v.n < 0 THEN <<45>> \o DigitsOf(0 - v.n)
                      ELSE DigitsOf(v.n)
    [] v.t = "str" -> v.str
    [] v.t = "other" -> <<91>>                               \* "[", "{"

\* Section 7: the feature map.
FeatureKeys == {"CFT100", "CFT101", "CFT1", "CFT2", "CFT3"}
\* The features int() is applied to (lines 331-333).
CountKeys == {"CFT1", "CFT2", "CFT3"}

\* get_feature_value over feat = main_features.get(key, {}): a feat that is
\* not a dict makes feat.get raise; a falsy value is absent; a value whose str() without
\* its dots is all digits goes through float(), which raises on "1.2.3" and
\* on a digit that is not decimal (a superscript).
get_feature_value(feat) ==
  LET Absent == [raises |-> FALSE, value |-> None]
  IN IF feat.j = "absent" THEN Absent
     ELSE IF feat.j # "obj" THEN FloatRaises
     ELSE IF Truthy(feat.v) /\ isdigit(WithoutDots(str(feat.v)))
     THEN float(feat.v)
     ELSE Absent

\* posting.get("mainFeatures", {}) and main_features.get(key, {}).
FeatureOf(posting, key) ==
  IF posting.mainFeatures.j \notin {"absent", "obj"} THEN FloatRaises
  ELSE get_feature_value(IF posting.mainFeatures.j = "absent" THEN JAbsent
                         ELSE posting.mainFeatures.v[key])

\* "int(get_feature_value(k)) if get_feature_value(k) else None": the float
\* 0.0 is falsy, any other finite one is truncated, and int() of an infinity
\* raises OverflowError.
IntRaises(r) == r.value # None /\ ~IsFinite(Val(r.value))
IntFeature(r) ==
  IF r.value # None /\ IsFinite(Val(r.value)) /\ ~IsZero(Val(r.value))
  THEN Some(Trunc(Val(r.value)))
  ELSE None

\* Section 11 (lines 351-360): the modified_date string goes through two
\* replace() calls and datetime.fromisoformat.
RECURSIVE Replace(_, _, _)
\* str.replace(old, new)
Replace(s, old, new) ==
  IF Len(s) < Len(old) THEN s
  ELSE IF Slice(s, 0, Len(old)) = old
       THEN new \o Replace(Slice(s, Len(old), Len(s)), old, new)
       ELSE <<s[1]>> \o Replace(Tail(s), old, new)
\* .replace("-0500", "-05:00").replace("-0300", "-03:00")
FixOffset(s) ==
  Replace(Replace(s, <<45, 48, 53, 48, 48>>,  \* "-0500"
                     <<45, 48, 53, 58, 48, 48>>),  \* "-05:00"
          <<45, 48, 51, 48, 48>>, <<45, 48, 51, 58, 48, 48>>)  \* "-0300" "-03:00"

\* datetime.fromisoformat (CPython 3.11 and later). A string of n digits:
IsNum(s, n) == Len(s) = n /\ \A i \in 1..Len(s) : s[i] \in Digits

\* The calendar of datetime.py.
is_leap(year) == year % 4 = 0 /\ (year % 100 # 0 \/ year % 400 = 0)
days_before_year(year) ==
  LET y == year - 1 IN y * 365 + y \div 4 - y \div 100 + y \div 400
days_in_month(year, month) ==
  IF month = 2 THEN (IF is_leap(year) THEN 29 ELSE 28)
  ELSE IF month \in {4, 6, 9, 11} THEN 30 ELSE 31
RECURSIVE days_before_month(_, _)
days_before_month(year, month) ==
  IF month = 1 THEN 0
  ELSE days_before_month(year, month - 1) + days_in_month(year, month - 1)
ymd2ord(year, month, day) ==
  days_before_year(year) + days_before_month(year, month) + day
\* The Monday of ISO week 1 of the year, as an ordinal.
isoweek1monday(year) ==
  LET firstday == ymd2ord(year, 1, 1)
      firstweekday == (firstday + 6) % 7
  IN IF firstweekday > 3 THEN firstday - firstweekday + 7
     ELSE firstday - firstweekday
\* ord2ymd for an ordinal that falls in year - 1, year or year + 1.
ord2ymd(ord, year) ==
  LET y == CHOOSE yy \in {year - 1, year, year + 1} :
             /\ days_before_year(yy) < ord
             /\ ord <= days_before_year(yy + 1)
      m == CHOOSE mm \in 1..12 :
             /\ days_before_month(y, mm) < ord - days_before_year(y)
             /\ ord - days_before_year(y)
                  <= days_before_month(y, mm) + days_in_month(y, mm)
  IN [ok |-> TRUE, year |-> y, month |-> m,
      day |-> ord - days_before_year(y) - days_before_month(y, m)]
NoDate == [ok |-> FALSE, year |-> 0, month |-> 0, day |-> 0]
isoweek_to_gregorian(year, week, day) ==
  LET first_weekday == ymd2ord(year, 1, 1) % 7
      long == first_weekday = 4 \/ (first_weekday = 3 /\ is_leap(year))
  IN IF year < 1 \/ year > 9999 THEN NoDate
     ELSE IF week < 1 \/ week > 53 \/ (week = 53 /\ ~long) THEN NoDate
     ELSE IF day < 1 \/ day > 7 THEN NoDate
     ELSE ord2ymd(isoweek1monday(year) + (week - 1) * 7 + (day - 1), year)

\* Where the date ends in the string (at least 7 characters long): the index
\* from 0 of the separator, -1 for a string that is rejected here.
find_isoformat_datetime_separator(s) ==
  LET n == Len(s) IN
  IF n = 7 THEN 7
  ELSE IF s[5] = 45
  THEN IF s[6] = 87
       THEN IF n > 8 /\ s[9] = 45
            THEN IF n = 9 THEN -1
                 ELSE IF n > 10 /\ s[11] \in Digits THEN 8 ELSE 10
            ELSE 8
       ELSE 10
  ELSE IF s[5] = 87
  THEN LET stops == {i \in 7..(n - 1) : s[i + 1] \notin Digits}
           idx == IF stops = {} THEN n
                  ELSE CHOOSE i \in stops : \A j \in stops : i <= j
       IN IF idx < 9 THEN idx ELSE IF idx % 2 = 0 THEN 7 ELSE 8
  ELSE 8

\* The date part: YYYY-MM-DD, YYYYMMDD, YYYY-Www, YYYY-Www-D, YYYYWww, YYYYWwwD.
parse_isoformat_date(d) ==
  IF Len(d) \notin {7, 8, 10} \/ ~IsNum(Slice(d, 0, 4), 4) THEN NoDate
  ELSE
    LET year == DecimalOf(Slice(d, 0, 4))
        has_sep == d[5] = 45
        sep == IF has_sep THEN 1 ELSE 0
        pos == 4 + sep
    IN IF Slice(d, pos, pos + 1) = <<87>>  \* "W"
       THEN LET wk == Slice(d, pos + 1, pos + 3)
                p2 == pos + 3
                dy == Slice(d, p2 + sep, p2 + sep + 1)
            IN IF ~IsNum(wk, 2) THEN NoDate
               ELSE IF Len(d) <= p2
               THEN isoweek_to_gregorian(year, DecimalOf(wk), 1)
               ELSE IF (Slice(d, p2, p2 + 1) = <<45>>) # has_sep THEN NoDate  \* "-"
               ELSE IF ~IsNum(dy, 1) \/ Len(d) # p2 + sep + 1 THEN NoDate
               ELSE isoweek_to_gregorian(year, DecimalOf(wk), DecimalOf(dy))
       ELSE LET mo == Slice(d, pos, pos + 2)
                p2 == pos + 2
                dy == Slice(d, p2 + sep, p2 + sep + 2)
            IN IF ~IsNum(mo, 2) THEN NoDate
               ELSE IF (Slice(d, p2, p2 + 1) = <<45>>) # has_sep THEN NoDate  \* "-"
               ELSE IF ~IsNum(dy, 2) \/ Len(d) # p2 + sep + 2 THEN NoDate
               ELSE [ok |-> TRUE, year |-> year, month |-> DecimalOf(mo),
                     day |-> DecimalOf(dy)]

\* parse_hh_mm_ss_ff of the C implementation over one segment of the string
\* (the time or the offset): HH[:MM[:SS]] or HH[MM[SS]], then a fraction
\* after "." or ",". rv is -1 for a malformed segment, 1 when characters of
\* the segment are left over, 0 otherwise. The C code takes a NUL byte for
\* the end of the string.
BadTime == [rv |-> -1, hour |-> 0, minute |-> 0, second |-> 0, microsecond |-> 0]
TimeOf(vals, us, rv) ==
  [rv |-> rv,
   hour |-> vals[1],
   minute |-> IF Len(vals) >= 2 THEN vals[2] ELSE 0,
   second |-> IF Len(vals) >= 3 THEN vals[3] ELSE 0,
   microsecond |-> us]
\* The string ends, or seems to, after the digits that start s.
EndsAfterDigits(s) ==
  \A i \in 1..Len(s) :
    s[i] \in Digits \/ s[i] = 0 \/ \E j \in 1..(i - 1) : s[j] \notin Digits
\* The fraction: the first six characters count (to_parse), further digits
\* are skipped (rest).
FractionOf(to_parse, rest, vals) ==
  IF ~IsNum(to_parse, Len(to_parse)) THEN BadTime
  ELSE TimeOf(vals, DecimalOf(to_parse) * Pow10(6 - Len(to_parse)),
              IF EndsAfterDigits(rest) THEN 0 ELSE 1)
\* The fraction from position p.
parse_fraction(seg, p, vals) ==
  FractionOf(Slice(seg, p, p + 6), Slice(seg, p + 6, Len(seg)), vals)
RECURSIVE parse_components(_, _, _, _, _)
\* What follows the two digits of component i, which end before character c:
\* the next component, the fraction or the end of the segment.
after_component(seg, i, p, c, has_separator, vals) ==
  IF p + 3 >= Len(seg) THEN TimeOf(vals, 0, IF c \in {<<>>, <<0>>} THEN 0 ELSE 1)
  ELSE IF has_separator /\ c = <<58>>  \* ":"
  THEN IF i = 2 THEN parse_fraction(seg, p + 3, vals)
       ELSE parse_components(seg, i + 1, p + 3, has_separator, vals)
  ELSE IF c = <<46>> \/ c = <<44>> THEN parse_fraction(seg, p + 3, vals)  \* "." ","
  ELSE IF ~has_separator
  THEN IF i = 2 THEN parse_fraction(seg, p + 2, vals)
       ELSE parse_components(seg, i + 1, p + 2, has_separator, vals)
  ELSE BadTime
\* Component i (0 the hour) from position p; the character after the hour
\* decides whether the segment has separators.
parse_components(seg, i, p, has_separator, vals) ==
  LET two == Slice(seg, p, p + 2)
      c == Slice(seg, p + 2, p + 3)
  IN IF ~IsNum(two, 2) THEN BadTime
     ELSE after_component(seg, i, p, c,
                          IF i = 0 THEN c = <<58>> ELSE has_separator,  \* ":"
                          Append(vals, DecimalOf(two)))
parse_hh_mm_ss_ff(seg) == parse_components(seg, 0, 0, TRUE, <<>>)

\* timezone.utc, the tzinfo of "Z" and of an offset of zero seconds.
utc == [sign |-> 1, seconds |-> 0, microseconds |-> 0]
\* The position from 1 of the first "Z", "+" or "-" of the time part, 0 when
\* there is none.
tz_pos(t) ==
  LET marks == {i \in 1..Len(t) : t[i] \in {90, 43, 45}}
  IN IF marks = {} THEN 0 ELSE CHOOSE i \in marks : \A j \in marks : i <= j
BadClock ==
  [ok |-> FALSE, hour |-> 0, minute |-> 0, second |-> 0, microsecond |-> 0,
   tzinfo |-> None]
ClockOf(tc, tz) ==
  [ok |-> TRUE, hour |-> tc.hour, minute |-> tc.minute, second |-> tc.second,
   microsecond |-> tc.microsecond, tzinfo |-> tz]
\* The offset zc after the sign: zero seconds is timezone.utc, a day or more
\* is rejected.
OffsetOf(sign, zc, secs) ==
  IF secs = 0 THEN Some(utc)
  ELSE Some([sign |-> sign, seconds |-> secs, microseconds |-> zc.microsecond])
\* The time tc and the offset zc put together: tzinfo is None for a naive
\* time. Left-over characters of the time are an error only when no offset
\* follows.
time_and_offset(t, pos, tc, zc) ==
  IF tc.rv < 0 THEN BadClock
  ELSE IF pos = 0 THEN (IF tc.rv = 1 THEN BadClock ELSE ClockOf(tc, None))
  ELSE IF t[pos] = 90
  THEN (IF pos = Len(t) \/ t[pos + 1] = 0 THEN ClockOf(tc, Some(utc))
        ELSE BadClock)
  ELSE IF zc.rv # 0 THEN BadClock
  ELSE IF zc.hour * 3600 + zc.minute * 60 + zc.second >= 86400 THEN BadClock
  ELSE ClockOf(tc, OffsetOf(IF t[pos] = 45 THEN -1 ELSE 1, zc,
                            zc.hour * 3600 + zc.minute * 60 + zc.second))
\* The time part with its offset, which starts at position pos.
time_from(t, pos) ==
  time_and_offset(t, pos,
                  parse_hh_mm_ss_ff(IF pos > 0 THEN Slice(t, 0, pos - 1) ELSE t),
                  parse_hh_mm_ss_ff(Slice(t, pos, Len(t))))
parse_isoformat_time(t) == time_from(t, tz_pos(t))

BadStamp == [ok |-> FALSE]
Midnight ==
  [ok |-> TRUE, hour |-> 0, minute |-> 0, second |-> 0, microsecond |-> 0,
   tzinfo |-> None]
\* The date dc and the time tc put together, with the range checks of the
\* datetime constructor.
datetime_of(dc, tc) ==
  IF ~dc.ok \/ ~tc.ok THEN BadStamp
  ELSE IF dc.year < 1 \/ dc.year > 9999 \/ dc.month < 1 \/ dc.month > 12
          \/ dc.day < 1 THEN BadStamp
  ELSE IF dc.day > days_in_month(dc.year, dc.month) THEN BadStamp
  ELSE IF tc.hour > 23 \/ tc.minute > 59 \/ tc.second > 59 THEN BadStamp
  ELSE [ok |-> TRUE, year |-> dc.year, month |-> dc.month, day |-> dc.day,
        hour |-> tc.hour, minute |-> tc.minute, second |-> tc.second,
        microsecond |-> tc.microsecond, tzinfo |-> tc.tzinfo]
\* The character at the separator is skipped whole: the first byte of a
\* character of UTF-8 tells how many bytes it has.
separator_len(lead) ==
  IF lead < 128 THEN 1
  ELSE IF lead \div 16 = 14 THEN 3
  ELSE IF lead \div 16 = 15 THEN 4
  ELSE 2
\* The bytes split at the separator sep: a separator with nothing after it
\* is rejected.
split_at(s, sep) ==
  IF sep < 0 THEN BadStamp
  ELSE IF Len(s) <= sep
  THEN datetime_of(parse_isoformat_date(Slice(s, 0, sep)), Midnight)
  ELSE IF Len(s) <= sep + separator_len(s[sep + 1]) THEN BadStamp
  ELSE datetime_of(parse_isoformat_date(Slice(s, 0, sep)),
                   parse_isoformat_time(
                     Slice(s, sep + separator_len(s[sep + 1]), Len(s))))
\* A surrogate has no UTF-8 encoding.
IsSurrogate(c) == c >= 55296 /\ c <= 57343
\* _sanitize_isoformat_str: the first surrogate at index 7, 8 or 10 (from 0),
\* where a separator may stand, becomes "T".
sanitize_isoformat_str(s) ==
  LET at == {i \in {7, 8, 10} : i < Len(s) /\ IsSurrogate(s[i + 1])}
  IN IF at = {} THEN s
     ELSE [s EXCEPT ![(CHOOSE i \in at : \A j \in at : i <= j) + 1] = 84]
\* The UTF-8 bytes of one character and of a string.
utf8(c) ==
  IF c < 128 THEN <<c>>
  ELSE IF c < 2048 THEN <<192 + (c \div 64), 128 + (c % 64)>>
  ELSE IF c < 65536
  THEN <<224 + (c \div 4096), 128 + ((c \div 64) % 64), 128 + (c % 64)>>
  ELSE <<240 + (c \div 262144), 128 + ((c \div 4096) % 64),
         128 + ((c \div 64) % 64), 128 + (c % 64)>>
RECURSIVE encode(_)
encode(s) == IF s = <<>> THEN <<>> ELSE utf8(s[1]) \o encode(Tail(s))
\* The parser reads the UTF-8 bytes of the sanitized string; a surrogate
\* that is left cannot be encoded.
from_sanitized(s) ==
  IF \E i \in 1..Len(s) : IsSurrogate(s[i]) THEN BadStamp
  ELSE split_at(encode(s), find_isoformat_datetime_separator(encode(s)))
\* datetime.fromisoformat(s): the datetime, or ok = FALSE for ValueError.
fromisoformat(s) ==
  IF Len(s) < 7 THEN BadStamp
  ELSE from_sanitized(sanitize_isoformat_str(s))

\* The datetime without its ok mark, None for a string that was rejected.
StampOf(dt) ==
  IF dt.ok THEN Some([f \in DOMAIN dt \ {"ok"} |-> dt[f]]) ELSE None
\* source_updated_at: None unless modified_date is a non-empty string that
\* fromisoformat reads; a truthy value that is not a string has no replace()
\* (AttributeError, caught with ValueError at line 359).
SourceUpdatedAt(posting) ==
  IF posting.modified_date.j # "obj" THEN None
  ELSE IF posting.modified_date.v.t # "str" THEN None
  ELSE IF posting.modified_date.v.str = <<>> THEN None
  ELSE StampOf(fromisoformat(FixOffset(posting.modified_date.v.str)))

\* Variant of NormalizeCoords without the fix-up: a lone coordinate is kept.
CoordsDropOneSided(lat, lng) == <<lat, lng>>
\* "Validate coordinates": if only one is present, null both.
NormalizeCoords(lat, lng) ==
  IF (lat = None) # (lng = None) THEN <<None, None>> ELSE <<lat, lng>>

\* prices[0].get("amount", 0)
AmountOf(first) ==
  CASE first.amount.j = "absent" -> PyInt(0)
    [] first.amount.j = "null" -> PyNone
    [] first.amount.j = "obj" -> first.amount.v

\* Lines 298-299: price is float(amount), given as x, which raises for a
\* text that is not a number; currency = prices[0].get("currency", "USD").
Priced(otype, currency, x) ==
  [raises |-> x.raises,
   operation_type |-> IF x.raises THEN "sale" ELSE otype,
   price |-> IF x.raises THEN Dec(0, 0) ELSE Val(x.value),
   currency |-> IF x.raises \/ currency.j = "absent" THEN Some("USD")
                ELSE IF currency.j = "null" THEN None
                ELSE Some(currency.v)]
\* Section 4 of the try block (lines 285-299): operation type, price and
\* currency from the first entry of priceOperationTypes. Each member is
\* absent, null or a value; .get(k, default) defaults an absent member only,
\* so a null operationType, name, first entry or amount raises, and a null
\* currency is passed on (currency = None). A value of another type raises
\* where the code calls .get, .lower or len on it or takes its first entry;
\* a falsy one in the place of a list is skipped as an empty list is. The
\* price is float(amount) of line 298, which raises for a text that is not
\* a number.
PriceOf(posting) ==
  LET Default == [raises |-> FALSE, operation_type |-> "sale",
                  price |-> Dec(0, 0), currency |-> Some("USD")]
      Raises == [raises |-> TRUE, operation_type |-> "sale",
                 price |-> Dec(0, 0), currency |-> Some("USD")]
      op_types == posting.priceOperationTypes
  IN IF op_types.j = "val" THEN (IF Truthy(op_types.v) THEN Raises ELSE Default)
     ELSE IF op_types.j # "obj" \/ op_types.v = <<>> THEN Default
     ELSE LET op_data == op_types.v[1] IN
       IF op_data.j # "obj" THEN Raises
       ELSE IF op_data.v.operationType.j \in {"null", "val"} THEN Raises
       ELSE IF /\ op_data.v.operationType.j = "obj"
               /\ op_data.v.operationType.v.name.j \in {"null", "val"}
       THEN Raises
       ELSE IF op_data.v.prices.j = "val" /\ Truthy(op_data.v.prices.v)
       THEN Raises
       ELSE LET ot == op_data.v.operationType
                rental == /\ ot.j = "obj" /\ ot.v.name.j = "obj"
                          /\ IsRental(ot.v.name.v)
                otype == IF rental THEN "rent" ELSE "sale"
                prices == op_data.v.prices
            IN IF prices.j # "obj" \/ prices.v = <<>>
               THEN [Default EXCEPT !.operation_type = otype]
               ELSE LET first == prices.v[1] IN
                 IF first.j # "obj" THEN Raises
                 ELSE Priced(otype, first.v.currency, float(AmountOf(first.v)))

\* d.get(k, default) for a member a string is expected in: the default for
\* an absent member, else the value as it is (None, the string, or a value of
\* another type).
GetOr(member, default) ==
  CASE member.j = "absent" -> default
    [] member.j = "null" -> PyNone
    [] member.j = "val" -> member.v
    [] member.j = "obj" -> Str(member.v)

\* Section 2 (lines 277-278): startswith raises on a url that is not a
\* string; a path gets the site in front of it.
Site ==
  <<104, 116, 116, 112, 115, 58, 47, 47, 119, 119, 119, 46, 122, 111, 110,
    97, 112, 114, 111, 112, 46, 99, 111, 109, 46, 97, 114>>
  \* "https://www.zonaprop.com.ar"
UrlOf(posting) ==
  IF posting.url.j = "absent" THEN [raises |-> FALSE, listing_url |-> <<>>]
  ELSE IF posting.url.j # "obj" THEN [raises |-> TRUE, listing_url |-> <<>>]
  ELSE [raises |-> FALSE,
        listing_url |-> IF Slice(posting.url.v, 0, 1) = <<47>>  \* "/"
                        THEN Site \o posting.url.v
                        ELSE posting.url.v]

\* Section 3 (line 282): descriptionNormalized when it is truthy, else
\* description.
DescriptionOf(posting) ==
  IF Truthy(GetOr(posting.descriptionNormalized, PyNone))
  THEN GetOr(posting.descriptionNormalized, PyNone)
  ELSE GetOr(posting.description, Str(<<>>))

\* Section 5 (lines 302-307): the amount of a truthy dict goes through
\* float() when it is truthy itself.
ExpensesOf(posting) ==
  IF posting.expenses.j # "obj" THEN [raises |-> FALSE, value |-> None]
  ELSE IF posting.expenses.v.amount.j # "obj"
  THEN [raises |-> FALSE, value |-> None]
  ELSE IF ~Truthy(posting.expenses.v.amount.v)
  THEN [raises |-> FALSE, value |-> None]
  ELSE float(posting.expenses.v.amount.v)

\* Section 6 (lines 310-312): the address of the location; a location or an
\* address that is not a dict makes .get raise.
AddressOf(posting) ==
  LET Raises == [raises |-> TRUE, address_text |-> PyNone]
      loc == posting.postingLocation
  IN IF loc.j = "absent" THEN [raises |-> FALSE, address_text |-> Str(<<>>)]
     ELSE IF loc.j # "obj" THEN Raises
     ELSE IF loc.v.address.j = "absent"
     THEN [raises |-> FALSE, address_text |-> Str(<<>>)]
     ELSE IF loc.v.address.j # "obj" THEN Raises
     ELSE [raises |-> FALSE,
           address_text |-> GetOr(loc.v.address.v.name, Str(<<>>))]

\* Section 8 (lines 336-341): the first truthy of the two urls of each
\* picture. visiblePictures that is not a dict and a picture that is not
\* one make .get raise; pictures is iterated, which raises on None, a bool
\* and an int, and hands the characters of a string and the keys of a dict
\* to pic.get, which raises.
PicUrl(pic) ==
  IF Truthy(GetOr(pic.v.url730x532, PyNone))
  THEN GetOr(pic.v.url730x532, PyNone)
  ELSE GetOr(pic.v.url360x266, PyNone)
PicturesOf(pics) ==
  IF \E i \in 1..Len(pics) : pics[i].j # "obj"
  THEN [raises |-> TRUE, images |-> <<>>]
  ELSE [raises |-> FALSE,
        images |-> SelectSeq([i \in 1..Len(pics) |-> PicUrl(pics[i])], Truthy)]
ImagesOf(posting) ==
  LET Raises == [raises |-> TRUE, images |-> <<>>]
      Empty == [raises |-> FALSE, images |-> <<>>]
      vp == posting.visiblePictures
  IN IF vp.j = "absent" THEN Empty
     ELSE IF vp.j # "obj" THEN Raises
     ELSE IF vp.v.pictures.j = "absent" THEN Empty
     ELSE IF vp.v.pictures.j = "null" THEN Raises
     ELSE IF vp.v.pictures.j = "val"
     THEN (IF vp.v.pictures.v.t \in {"bool", "int"} \/ Truthy(vp.v.pictures.v)
           THEN Raises ELSE Empty)
     ELSE PicturesOf(vp.v.pictures.v)

\* Section 9 (lines 344-345): the name of a truthy publisher; a truthy one
\* that is not a dict has no .get.
AgentOf(posting) ==
  LET publisher == posting.publisher
  IN IF publisher.j \in {"absent", "null"}
     THEN [raises |-> FALSE, agent |-> PyNone]
     ELSE IF publisher.j = "val"
     THEN [raises |-> Truthy(publisher.v), agent |-> PyNone]
     ELSE [raises |-> FALSE, agent |-> GetOr(publisher.v.name, PyNone)]

\* Section 10 (lines 348-349): the name of a truthy realEstateType, "unknown"
\* without one.
Unknown == <<117, 110, 107, 110, 111, 119, 110>>  \* "unknown"
PropertyTypeOf(posting) ==
  LET prop_type_data == posting.realEstateType
  IN IF prop_type_data.j \in {"absent", "null"}
     THEN [raises |-> FALSE, property_type |-> Str(Unknown)]
     ELSE IF prop_type_data.j = "val"
     THEN [raises |-> Truthy(prop_type_data.v), property_type |-> Str(Unknown)]
     ELSE [raises |-> FALSE,
           property_type |-> GetOr(prop_type_data.v.name, Str(Unknown))]

\* The keyword arguments of UnifiedListing(...) at lines 368-392.
ListingArgs(listing_id, url, title, description, pr, ex, ad, co, ft, counts, im, ag, pt, now, updated) ==
  [platform |-> "zonaprop",
   platform_listing_id |-> listing_id,
   listing_url |-> url.listing_url,
   operation_type |-> pr.operation_type,
   property_type |-> pt.property_type,
   currency |-> pr.currency,
   price |-> Some(pr.price),
   expenses |-> ex.value,
   status |-> "active",
   address_text |-> ad.address_text,
   geo_lat |-> co[1],
   geo_lng |-> co[2],
   surface_total |-> ft["CFT100"].value,
   surface_covered |-> ft["CFT101"].value,
   rooms |-> counts["CFT1"],
   bedrooms |-> counts["CFT2"],
   bathrooms |-> counts["CFT3"],
   title |-> title,
   description |-> description,
   images |-> im.images,
   agent_publisher |-> ag.agent,
   source_created_at |-> Some(now),
   source_updated_at |-> updated]

\* The listing as the model holds it: the currency, a literal, without its
\* Optional wrapper.
Constructed(f) == [f EXCEPT !.currency = Val(f.currency)]

\* The try block after the identity check: an exception of one of the
\* sections or of the constructor (currency=None is not one of the literals
\* of UnifiedListing.currency), or the listing.
Transformed(url, pr, ex, ad, geo, ft, im, ag, pt, f) ==
  IF \/ url.raises \/ pr.raises \/ ex.raises \/ ad.raises \/ ~geo.ok
     \/ \E k \in FeatureKeys : ft[k].raises
     \/ \E k \in CountKeys : IntRaises(ft[k])
     \/ im.raises \/ ag.raises \/ pt.raises
  THEN [kind |-> "error", bound |-> TRUE]
  ELSE IF f.currency = None THEN [kind |-> "error", bound |-> TRUE]
  ELSE IF ~UnifiedListingValid(Constructed(f))
  THEN [kind |-> "error", bound |-> TRUE]
  ELSE [kind |-> "yield", listing |-> Constructed(f)]

\* The sections of the try block for a posting with the identity listing_id.
Sections(posting, listing_id, url, pr, ex, ad, geo, ft, im, ag, pt, now) ==
  Transformed(url, pr, ex, ad, geo, ft, im, ag, pt,
              ListingArgs(listing_id, url, GetOr(posting.title, Str(<<>>)),
                          DescriptionOf(posting), pr, ex, ad,
                          NormalizeCoords(geo.latitude, geo.longitude), ft,
                          [k \in CountKeys |-> IntFeature(ft[k])],
                          im, ag, pt, now, SourceUpdatedAt(posting)))

\* The outcome of the try block for one posting:
\*   error/bound=FALSE  an exception before listing_id was assigned,
\*   skip               no identity: continue,
\*   error/bound=TRUE   an exception after listing_id was assigned,
\*   yield              the UnifiedListing.
Normalize(posting, now) ==
  IF posting.type # "dict" THEN [kind |-> "error", bound |-> FALSE]
  ELSE IF ListingIdOf(posting) = "" THEN [kind |-> "skip"]
  ELSE Sections(posting, ListingIdOf(posting), UrlOf(posting),
                PriceOf(posting), ExpensesOf(posting), AddressOf(posting),
                GeoOf(posting),
                [k \in FeatureKeys |-> FeatureOf(posting, k)],
                ImagesOf(posting), AgentOf(posting), PropertyTypeOf(posting),
                now)

(***************************************************************************)
(* Raw postings the upstream may serve.                                    *)
(***************************************************************************)
GeoObjs ==
  {JObj([latitude |-> la, longitude |-> lo]) :
     la \in {None, Some(-34), Some(95)}, lo \in {None, Some(-58)}}
\* A postingLocation object.
Location(address, geo) ==
  JObj([address |-> address, postingGeolocation |-> geo])
Locations ==
  {JAbsent, JNull, JVal(PyInt(5)), Location(JAbsent, JAbsent),
   Location(JAbsent, JNull), Location(JAbsent, JVal(PyInt(0))),
   Location(JAbsent, JObj([geolocation |-> JNull])),
   Location(JAbsent, JObj([geolocation |-> JVal(Str(<<>>))]))}
  \cup {Location(JAbsent, JObj([geolocation |-> g])) : g \in GeoObjs}
\* Operation names, in the upstream's spelling and in others.
Venta == <<86, 101, 110, 116, 97>>  \* "Venta"
Alquiler == <<65, 108, 113, 117, 105, 108, 101, 114>>  \* "Alquiler"
OperationNames ==
  {JAbsent, JNull, JVal(PyInt(2)), JObj(Venta), JObj(Alquiler),
   JObj(<<65, 76, 81, 85, 73, 76, 69, 82>>),  \* "ALQUILER"
   JObj(<<97, 108, 113, 117, 105, 108, 101, 114>>),  \* "alquiler"
   JObj(Alquiler \o <<32, 84, 101, 109, 112, 111, 114, 97, 114, 105, 111>>),  \* " Temporario"
   JObj(<<65, 108, 113, 117, 105, 108, 97>>),  \* "Alquila"
   JObj(<<65, 76, 81, 85, 304, 76, 69, 82>>),  \* "ALQU" U+0130 "LER"
   JObj(<<201, 112, 111, 99, 97, 32>> \o Alquiler)}  \* U+00C9 "poca Alquiler"
OperationTypeMembers ==
  {JAbsent, JNull, JVal(Str(Venta))}
  \cup {JObj([name |-> n]) : n \in OperationNames}
\* The first entry of a prices list.
FirstPrices ==
  {JNull, JVal(PyInt(100))} \cup
  {JObj([amount |-> a, currency |-> c]) :
     a \in {JAbsent, JNull, JObj(PyInt(0)), JObj(PyInt(100)), JObj(PyInt(-5)),
            JObj(Str(<<49, 48, 48>>)),  \* "100"
            JObj(Str(<<120>>)),  \* "x"
            JObj(Str(<<110, 97, 110>>))},  \* "nan"
     c \in {JAbsent, JNull, JObj("ARS"), JObj("$")}}
PricesMembers ==
  {JAbsent, JNull, JVal(PyInt(0)), JVal(PyInt(100)), JObj(<<>>)}
  \cup {JObj(<<e>>) : e \in FirstPrices}
\* The priceOperationTypes member: absent, null, a value that is not a list,
\* an empty list, or a list whose first entry is null, a value that is not a
\* dict, or an object.
PriceEntries ==
  {JAbsent, JNull, JVal(PyInt(0)), JVal(Str(Venta)), JObj(<<>>),
   JObj(<<JNull>>), JObj(<<JVal(Str(Venta))>>)}
  \cup
  {JObj(<<JObj([operationType |-> o, prices |-> JAbsent])>>) :
     o \in OperationTypeMembers}
  \cup
  {JObj(<<JObj([operationType |-> o, prices |-> p])>>) :
     o \in {JAbsent, JObj([name |-> JObj(Venta)]), JObj([name |-> JObj(Alquiler)])},
     p \in PricesMembers}
\* A dict with none of the members the code reads.
EmptyPosting ==
  [type |-> "dict", postingId |-> PyNone, id |-> PyNone, url |-> JAbsent,
   title |-> JAbsent, descriptionNormalized |-> JAbsent,
   description |-> JAbsent, priceOperationTypes |-> JAbsent,
   expenses |-> JAbsent, postingLocation |-> JAbsent, mainFeatures |-> JAbsent,
   visiblePictures |-> JAbsent, publisher |-> JAbsent,
   realEstateType |-> JAbsent, modified_date |-> JAbsent]
DictPostings ==
  {[EmptyPosting EXCEPT !.postingId = pid, !.id = id,
                        !.priceOperationTypes = p, !.postingLocation = l] :
     pid \in {PyNone, IdText(""), IdText("1"), IdText("2"), PyInt(0),
              PyInt(7)},
     id \in {PyNone, IdText("1"), IdText("7"), PyBool(TRUE)},
     p \in PriceEntries, l \in Locations}
NonDictPosting == [type |-> "other"]

\* priceOperationTypes with one entry: a name, an amount and a currency.
PriceEntry(name, amount, currency) ==
  JObj(<<JObj([operationType |-> JObj([name |-> JObj(name)]),
              prices |-> JObj(<<JObj([amount |-> JObj(PyInt(amount)),
                                      currency |-> JObj(currency)])>>)])>>)

\* Postings with and without their optional members.
PostingFull ==
  [EmptyPosting EXCEPT
     !.postingId = IdText("1"),
     !.priceOperationTypes = PriceEntry(Venta, 100, "ARS"),
     !.postingLocation =
       Location(JAbsent,
                JObj([geolocation |->
                  JObj([latitude |-> Some(-34), longitude |-> Some(-58)])]))]
PostingBare == [EmptyPosting EXCEPT !.id = IdText("1")]
PostingOneCoord ==
  [EmptyPosting EXCEPT
     !.postingId = IdText("2"),
     !.priceOperationTypes =
       JObj(<<JObj([operationType |-> JObj([name |-> JObj(Alquiler)]),
                   prices |-> JAbsent])>>),
     !.postingLocation =
       Location(JAbsent,
                JObj([geolocation |->
                  JObj([latitude |-> Some(-34), longitude |-> None])]))]
PostingNoId == [EmptyPosting EXCEPT !.postingId = IdText("")]
PostingNullLocation ==
  [EmptyPosting EXCEPT !.postingId = IdText("2"), !.postingLocation = JNull]
\* Amounts at the edges of the doubles: below the smallest one, above the
\* largest one, and one more than 2^53.
EdgeAmounts ==
  {<<49, 101, 45, 52, 48, 48>>,  \* "1e-400"
   <<45, 49, 101, 45, 52, 48, 48>>,  \* "-1e-400"
   <<49, 101, 52, 48, 48>>,  \* "1e400"
   <<45, 49, 101, 52, 48, 48>>,  \* "-1e400"
   <<57, 48, 48, 55, 49, 57, 57, 50, 53, 52, 55, 52, 48, 57, 57, 51>>,  \* "9007199254740993"
   <<45, 48, 46, 50, 53>>,  \* "-0.25"
   <<49, 101, 53, 48, 48, 48, 48, 48, 48, 48, 48, 48>>}  \* "1e5000000000"
\* Prices lists of one and of two entries, the second entry with another
\* amount than the first, null or not a dict.
PriceLists ==
  LET Entry(a) == JObj([amount |-> a, currency |-> JObj("USD")])
      firsts == {JAbsent, JObj(PyInt(0)), JObj(PyInt(100)), JObj(PyInt(-5)),
                 JObj(Str(<<49, 48, 48>>)), JObj(Str(<<45, 53>>))}  \* "100" "-5"
                \cup {JObj(Str(a)) : a \in EdgeAmounts}
      seconds == {<<>>, <<JNull>>, <<JVal(PyInt(3))>>, <<Entry(JObj(PyInt(7)))>>,
                  <<Entry(JObj(PyInt(-5)))>>,
                  <<Entry(JObj(PyInt(7))), Entry(JObj(PyInt(-5)))>>}
  IN {<<Entry(a)>> \o rest : a \in firsts, rest \in seconds}
\* Postings with such a list in the first entry of priceOperationTypes, alone
\* or followed by a second entry with a price of its own.
PricePostings ==
  LET Operation(list) ==
        JObj([operationType |-> JObj([name |-> JObj(Venta)]),
              prices |-> JObj(list)])
      Other == Operation(<<JObj([amount |-> JObj(PyInt(9)),
                                currency |-> JObj("ARS")])>>)
  IN {[PostingFull EXCEPT !.priceOperationTypes = JObj(<<Operation(list)>> \o more)] :
        list \in PriceLists, more \in {<<>>, <<Other>>}}
\* The values a feature of the map may carry, and feature maps with up to
\* two features.
FeatureValues ==
  {JAbsent, JNull, JVal(PyInt(3)), JObj(PyNone),
   JObj(PyInt(0)), JObj(PyInt(3)), JObj(PyInt(-2)),
   JObj(PyBool(TRUE)), JObj(PyOther(TRUE)),
   JObj(Str(<<>>)), JObj(Str(<<48>>)), JObj(Str(<<56, 53>>)),  \* "0" "85"
   JObj(Str(<<56, 46, 53>>)), JObj(Str(<<56, 46, 53, 53>>)),  \* "8.5" "8.55"
   JObj(Str(<<48, 46, 48, 53>>)), JObj(Str(<<46, 56, 53>>)),  \* "0.05" ".85"
   JObj(Str(<<49, 46, 50, 46, 51>>)),  \* "1.2.3"
   JObj(Str(<<45, 53>>)), JObj(Str(<<97, 98, 99>>)),  \* "-5" "abc"
   JObj(Str(<<178>>)), JObj(Str(<<49, 178>>)),  \* U+00B2, "1" U+00B2
   JObj(Str(<<1635, 46, 1637>>))}  \* U+0663 "." U+0665, the float 3.5
FeatureMaps ==
  {[k \in FeatureKeys |-> IF k = k1 THEN v1 ELSE IF k = k2 THEN v2 ELSE JAbsent] :
     k1 \in FeatureKeys, k2 \in FeatureKeys,
     v1 \in FeatureValues, v2 \in FeatureValues}
\* Digit strings at the edges of the doubles: one below the smallest double
\* with a digit that is not 0, one above the largest, and 2^53 + 1.
EdgeFeatures ==
  {JObj(Str(<<48, 46>> \o [i \in 1..330 |-> 48] \o <<49>>)),  \* "0.", 330 "0", "1"
   JObj(Str([i \in 1..310 |-> 57])),  \* 310 "9"
   JObj(Str(<<57, 48, 48, 55, 49, 57, 57, 50, 53, 52, 55, 52, 48, 57, 57, 51>>)),
     \* "9007199254740993"
   JObj(Str(<<49>> \o [i \in 1..22 |-> 48] \o <<46, 53>>))}  \* "1", 22 "0", ".5"
EdgeFeatureMaps ==
  {[k \in FeatureKeys |-> IF k = k1 THEN v1 ELSE JAbsent] :
     k1 \in FeatureKeys, v1 \in EdgeFeatures}
FeaturePostings ==
  {[PostingFull EXCEPT !.mainFeatures = m] :
     m \in {JNull, JVal(Str(<<>>))}
           \cup {JObj(fm) : fm \in FeatureMaps \cup EdgeFeatureMaps}}
\* The values of the modified_date member: the upstream's format with its
\* offsets, other ISO 8601 forms, and strings that are not dates.
IsoDate == <<50, 48, 50, 54, 45, 48, 49, 45, 50, 48>>  \* "2026-01-20"
IsoStamp == IsoDate \o <<84, 49, 49, 58, 52, 57, 58, 51, 57>>  \* "T11:49:39"
StampStrings ==
  {<<>>, IsoDate, IsoStamp, <<121, 101, 115, 116, 101, 114, 100, 97, 121>>,  \* "yesterday"
   IsoDate \o <<32, 49, 49, 58, 52, 57, 58, 51, 57>>,  \* " 11:49:39"
   IsoDate \o <<84>>,  \* "T"
   IsoDate \o <<84, 49, 49, 58, 52, 57, 58, 51, 57, 46, 53>>,  \* "T11:49:39.5"
   IsoDate \o <<84, 50, 52, 58, 48, 48, 58, 48, 48>>,  \* "T24:00:00"
   <<50, 48, 50, 54, 45, 48, 50, 45, 51, 48>>,  \* "2026-02-30"
   <<50, 48, 50, 54, 48, 49, 50, 48>>,  \* "20260120"
   <<50, 48, 50, 54, 45, 87, 48, 51, 45, 50>>,  \* "2026-W03-2"
   IsoDate \o <<8364, 49, 49, 58, 52, 57>>,  \* U+20AC "11:49"
   IsoDate \o <<55296, 49, 49, 58, 52, 57>>,  \* U+D800 "11:49"
   IsoDate \o <<84, 49, 49, 120, 43, 48, 51, 58, 48, 48>>,  \* "T11x+03:00"
   IsoDate \o <<84, 49, 49, 233, 43, 48, 51, 58, 48, 48>>,  \* "T11" U+00E9 "+03:00"
   IsoDate \o <<84, 49, 49, 58, 52, 1641>>}  \* "T11:4" U+0669
  \cup
  {IsoStamp \o o :
     o \in {<<45, 48, 53, 48, 48>>, <<45, 48, 51, 48, 48>>,  \* "-0500" "-0300"
            <<45, 48, 51, 58, 48, 48>>, <<45, 48, 52, 58, 48, 48>>,  \* "-03:00" "-04:00"
            <<45, 48, 52, 48, 48>>, <<43, 48, 48, 58, 48, 48>>,  \* "-0400" "+00:00"
            <<90>>, <<122>>, <<45, 48, 51>>, <<45, 51>>,  \* "Z" "z" "-03" "-3"
            <<43, 50, 52, 58, 48, 48>>}}  \* "+24:00"
ModifiedDates ==
  {JAbsent, JNull, JObj(PyInt(5)), JObj(PyOther(TRUE))}
  \cup {JObj(Str(st)) : st \in StampStrings}
StampPostings ==
  {[q EXCEPT !.modified_date = m] :
     q \in {PostingFull, PostingBare}, m \in ModifiedDates}

\* The members of sections 2, 3, 5, 6, 8, 9 and 10, each with the values the
\* upstream's documents carry and with values of other types.
Casa == <<67, 97, 115, 97>>  \* "Casa"
Path == <<47, 112, 47, 49>>  \* "/p/1"
Texts == {JAbsent, JNull, JVal(PyInt(0)), JVal(PyInt(7)), JObj(<<>>), JObj(Casa)}
Urls == Texts \cup {JObj(Path)}
Amounts ==
  {JAbsent, JNull, JObj(PyInt(0)), JObj(PyInt(1500)), JObj(PyInt(-5)),
   JObj(PyBool(TRUE)), JObj(PyOther(TRUE)), JObj(PyOther(FALSE)),
   JObj(Str(<<>>)), JObj(Str(<<120>>)),  \* "x"
   JObj(Str(<<49, 53, 48, 48, 46, 53>>)),  \* "1500.5"
   JObj(Str(<<32, 49, 95, 53, 101, 50>>)),  \* " 1_5e2"
   JObj(Str(<<45, 49, 53>>)),  \* "-15"
   JObj(Str(<<105, 110, 102>>)), JObj(Str(<<110, 97, 110>>)),  \* "inf" "nan"
   JObj(Str(<<45, 49, 101, 45, 52, 48, 48>>)),  \* "-1e-400"
   JObj(Str(<<49, 101, 52, 48, 48>>))}  \* "1e400"
ExpensesMembers ==
  {JAbsent, JNull, JVal(Str(Casa))}
  \cup {JObj([amount |-> a]) : a \in Amounts}
Named == {JAbsent, JNull, JVal(PyInt(0)), JVal(Str(Casa))}
         \cup {JObj([name |-> n]) : n \in Texts}
AddressLocations == {Location(a, JAbsent) : a \in Named}
Pictures ==
  {JNull, JVal(Str(Path))}
  \cup {JObj([url730x532 |-> a, url360x266 |-> b]) :
          a \in {JAbsent, JNull, JObj(Path), JVal(PyInt(7))},
          b \in {JAbsent, JObj(<<>>), JObj(Casa)}}
PicturesMembers ==
  {JAbsent, JNull, JVal(PyInt(0)), JVal(PyBool(FALSE)), JVal(Str(<<>>)),
   JVal(Str(Casa)), JVal(PyOther(FALSE)), JVal(PyOther(TRUE)), JObj(<<>>)}
  \cup {JObj(<<a>>) : a \in Pictures}
  \cup {JObj(<<JObj([url730x532 |-> JObj(Path), url360x266 |-> JAbsent]), a>>) :
          a \in Pictures}
VisiblePictures ==
  {JAbsent, JNull, JVal(PyInt(1))}
  \cup {JObj([pictures |-> p]) : p \in PicturesMembers}
MemberPostings ==
  {[PostingFull EXCEPT !.url = u] : u \in Urls}
  \cup {[PostingFull EXCEPT !.title = t] : t \in Texts}
  \cup {[PostingFull EXCEPT !.descriptionNormalized = a, !.description = b] :
          a \in Texts, b \in Texts}
  \cup {[PostingFull EXCEPT !.expenses = e] : e \in ExpensesMembers}
  \cup {[PostingFull EXCEPT !.postingLocation = l] : l \in AddressLocations}
  \cup {[PostingFull EXCEPT !.visiblePictures = v] : v \in VisiblePictures}
  \cup {[PostingFull EXCEPT !.publisher = n] : n \in Named}
  \cup {[PostingFull EXCEPT !.realEstateType = n] : n \in Named}
RawPostings ==
  DictPostings \cup FeaturePostings \cup StampPostings \cup MemberPostings
  \cup PricePostings \cup {NonDictPosting}

\* The postings served in a run: one of each way the try block can end, the
\* yield with two identities.
RunPostings ==
  {PostingFull, PostingOneCoord, PostingNoId, PostingNullLocation,
   NonDictPosting}

(***************************************************************************)
(* Sink: MultiZoneScraper.save_listing_to_db over the listings_current     *)
(* table, a set of rows.                                                   *)
(***************************************************************************)
\* pk_id = f"{listing.platform}_{listing.platform_listing_id}"
pk_id(listing) == listing.platform \o "_" \o listing.platform_listing_id

\* Variant of ListingDB whose primary key also carries the ingestion time.
ListingDBStamped(listing, now) ==
  [id |-> pk_id(listing) \o "_" \o ToString(now),
   platform |-> listing.platform,
   platform_listing_id |-> listing.platform_listing_id,
   listing_url |-> listing.listing_url,
   operation_type |-> listing.operation_type,
   property_type |-> listing.property_type,
   currency |-> listing.currency,
   price |-> listing.price,
   expenses |-> listing.expenses,
   status |-> listing.status,
   address_text |-> listing.address_text,
   geo_lat |-> listing.geo_lat,
   geo_lng |-> listing.geo_lng,
   surface_total |-> listing.surface_total,
   surface_covered |-> listing.surface_covered,
   rooms |-> listing.rooms,
   bedrooms |-> listing.bedrooms,
   bathrooms |-> listing.bathrooms,
   title |-> listing.title,
   description |-> listing.description,
   images |-> listing.images,
   agent_publisher |-> listing.agent_publisher,
   source_created_at |-> listing.source_created_at,
   source_updated_at |-> listing.source_updated_at,
   ingested_at |-> now]
\* ListingDB(**data) with data['id'] = pk_id and ingested_at = utcnow().
ListingDB(listing, now) ==
  [id |-> pk_id(listing),
   platform |-> listing.platform,
   platform_listing_id |-> listing.platform_listing_id,
   listing_url |-> listing.listing_url,
   operation_type |-> listing.operation_type,
   property_type |-> listing.property_type,
   currency |-> listing.currency,
   price |-> listing.price,
   expenses |-> listing.expenses,
   status |-> listing.status,
   address_text |-> listing.address_text,
   geo_lat |-> listing.geo_lat,
   geo_lng |-> listing.geo_lng,
   surface_total |-> listing.surface_total,
   surface_covered |-> listing.surface_covered,
   rooms |-> listing.rooms,
   bedrooms |-> listing.bedrooms,
   bathrooms |-> listing.bathrooms,
   title |-> listing.title,
   description |-> listing.description,
   images |-> listing.images,
   agent_publisher |-> listing.agent_publisher,
   source_created_at |-> listing.source_created_at,
   source_updated_at |-> listing.source_updated_at,
   ingested_at |-> now]

\* Variant of SessionMerge that behaves as session.add: never replaces a row.
MergeAlwaysInserts(table, row) == table \cup {row}
\* Variant of SessionMerge that inserts when the key is absent and leaves a
\* stored row as it is.
MergeKeepsStored(table, row) ==
  IF \E r \in table : r.id = row.id THEN table ELSE table \cup {row}
\* Variant of SessionMerge that matches stored rows on the platform alone.
MergeReplacesPlatform(table, row) ==
  {r \in table : r.platform # row.platform} \cup {row}
\* session.merge(row); session.commit(): the row replaces the stored row with
\* the same primary key, or is inserted when there is none.
SessionMerge(table, row) == {r \in table : r.id # row.id} \cup {row}

\* Variant of save_listing_to_db without the rollback: the merged row of a
\* failed call stays in the session and reaches the table.
SaveWithoutRollback(table, listing, now, commit_ok) ==
  SessionMerge(table, ListingDB(listing, now))
\* The table after save_listing_to_db: commit_ok = FALSE is a storage-layer
\* failure, caught, followed by session.rollback().
save_listing_to_db(table, listing, now, commit_ok) ==
  IF commit_ok THEN SessionMerge(table, ListingDB(listing, now)) ELSE table

(***************************************************************************)
(* State.                                                                  *)
(***************************************************************************)
VARIABLES
  args,            \* the call: entry point, zones, operations, max_pages, save_to_db
  pc,              \* control point of the (single-threaded) run
  zi, oi,          \* positions of the zone and operation loops
  stats,           \* MultiZoneScraper.stats
  listings_count,  \* scrape_zone_operation's local counter
  page,            \* fetch_listings: page
  pages_fetched,   \* fetch_listings: pages_fetched
  pagination_info, \* connector.pagination_info: the paging member last received
  id_bound,        \* fetch_listings: whether the local listing_id is assigned
  left,            \* postings of the current page not yet transformed
  store,           \* rows of listings_current
  clock,           \* the time source read by datetime.utcnow()
  reqLog,          \* history: requests of the current combination, with responses
  served,          \* history: postings served by the upstream in this run
  tally,           \* history: what became of the postings and requests of the run
  cyielded,        \* history: listings yielded in the current combination
  lastSave,        \* history: the last call of save_listing_to_db
  prevSave,        \* history: the call before it, kept for the sink alone
  nice,            \* history: every response one flagged page, every posting stored
  nraw, nout,      \* normaliser alone: a posting and the outcome of its try block
  attempted,       \* history: the (zone, operation) calls of scrape_zone_operation
  ingestion_runs,  \* rows of the ingestion_runs table
  slept,           \* history: tenths of a second slept since the last page request
  returned_runs    \* history: the stats each call of scrape_all_zones_operations
                   \* returned, with the listings yielded so far

vars == <<args, pc, zi, oi, stats, listings_count, page, pages_fetched,
          pagination_info, id_bound, left, store, clock, reqLog, served, tally,
          cyielded, lastSave, prevSave, nice, nraw, nout, attempted,
          ingestion_runs, slept, returned_runs>>

connVars == <<page, pages_fetched, pagination_info, id_bound, left, reqLog>>
sinkVars == <<store, clock, lastSave, prevSave>>
normVars == <<nraw, nout>>

(***************************************************************************)
(* Inputs of a run.                                                        *)
(***************************************************************************)
ZoneLists == {<<"capital_federal">>, <<"capital_federal", "atlantis">>}
OperationLists == {<<"sale">>, <<"sale", "rent">>, <<"barter", "sale">>}
MaxPagesArgs == {None} \cup {Some(k) : k \in 0..MaxPagesArg}

\* Runs over one zone with every page cap, runs over two zones capped at one
\* page per combination with persistence off, and direct calls of
\* scrape_zone_operation.
Calls ==
  [entry : {"all"}, zones : ZoneLists, operations : OperationLists,
   max_pages : MaxPagesArgs, save_to_db : BOOLEAN]
  \cup
  [entry : {"all"}, zones : {<<"capital_federal", "zona_norte_gba">>},
   operations : {<<"sale">>, <<"sale", "rent">>},
   max_pages : {Some(1)}, save_to_db : {FALSE}]
  \cup
  [entry : {"single"}, zones : {<<"capital_federal">>, <<"atlantis">>},
   operations : {<<"sale">>, <<"barter">>},
   max_pages : {None}, save_to_db : {TRUE}]

KnownZone(z) == z \in DOMAIN ZONES_CONFIG
KnownOperation(o) == o \in DOMAIN OPERATION_TYPES

\* The paging member of a response document: absent, null, a value that is
\* neither null nor an object (a list, a string), or an object whose lastPage
\* member is absent, null or a boolean.
JOther == [j |-> "other"]
LastPageMembers == {JAbsent, JNull, JObj(TRUE), JObj(FALSE)}
PagingMembers ==
  {JAbsent, JNull, JOther} \cup {JObj([lastPage |-> m]) : m \in LastPageMembers}
\* The paging object with its lastPage flag set to last.
Paging(last) == JObj([lastPage |-> JObj(last)])

\* What the upstream answers to a request: a failure (session.post raises, or
\* raise_for_status on a non-2xx status: "error"), the JSON document with its
\* listPostings and paging members, or a document whose listPostings is a
\* non-zero number and that has no paging member ("notalist").
Responses(budget) ==
  {[status |-> "error"], [status |-> "notalist"]} \cup
  [status : {"ok"},
   listPostings : {None} \cup {Some(n) : n \in 0..budget},
   paging : PagingMembers]

InitStats ==
  [total_listings |-> 0, total_zones_processed |-> 0,
   total_operations_processed |-> 0, errors |-> 0,
   start_time |-> None, end_time |-> None]

InitTally == [yielded |-> 0, noid |-> 0, malformed |-> 0, saveFail |-> 0, fetchFail |-> 0]

\* MultiZoneScraper() and ZonapropConnector() just constructed:
\* pagination_info = {}.
InitCommon ==
  /\ zi = 1 /\ oi = 1
  /\ stats = InitStats
  /\ listings_count = 0
  /\ page = 1 /\ pages_fetched = 0
  /\ pagination_info = JObj([lastPage |-> JAbsent])
  /\ id_bound = FALSE
  /\ left = 0
  /\ store = {}
  /\ clock = 0
  /\ reqLog = <<>>
  /\ served = 0
  /\ tally = InitTally
  /\ cyielded = 0
  /\ lastSave = None
  /\ prevSave = None
  /\ nice = TRUE
  /\ attempted = <<>>
  /\ ingestion_runs = {}
  /\ slept = 0
  /\ returned_runs = <<>>

Init ==
  /\ args \in Calls
  /\ pc = "call"
  /\ InitCommon
  /\ nraw = NonDictPosting /\ nout = [kind |-> "pending"]

(***************************************************************************)
(* Connector decisions (zonaprop.py).                                      *)
(***************************************************************************)
\* Variant of CapReached that is off by one: it allows one page too many.
CapCheckedLate(max_pages, fetched) == TruthyInt(max_pages) /\ fetched > Val(max_pages)
\* "if max_pages and pages_fetched >= max_pages: break"
CapReached(max_pages, fetched) == TruthyInt(max_pages) /\ fetched >= Val(max_pages)

\* get_property, line 131: 'if "paging" in data: self.pagination_info =
\* data["paging"]', whatever the member holds.
StorePaging(info, resp) ==
  IF resp.status = "ok" /\ resp.paging.j # "absent" THEN resp.paging ELSE info

\* Lines 132-134 call data["paging"].get: AttributeError on a paging member
\* that is not an object, caught by the handler of get_property, which then
\* returns None like after a failed request.
PagingRaises(resp) == resp.status = "ok" /\ resp.paging.j \in {"null", "other"}

\* get_property returns None from its handler (lines 139-141): the request
\* failed, or the paging member made lines 132-134 raise.
GetPropertyFails(resp) == resp.status = "error" \/ PagingRaises(resp)

\* 'if not data or "listPostings" not in data: break'
NoData(resp) ==
  \/ GetPropertyFails(resp)
  \/ (resp.status = "ok" /\ resp.listPostings = None)

\* Variant of FetchOutcome in which a page without postings is treated like any
\* other page: on to the test of the last-page flag.
FetchOutcomeEmptyContinues(resp) ==
  IF NoData(resp) THEN "combo_end"
  ELSE IF resp.status = "notalist" THEN "combo_exc"
  ELSE IF Val(resp.listPostings) = 0 THEN "page_end"
  ELSE "items"
\* Variant of FetchOutcome in which a failed request raises out of the
\* generator instead of ending it.
FetchOutcomeRaises(resp) ==
  IF resp.status = "error" \/ resp.status = "notalist" THEN "combo_exc"
  ELSE IF NoData(resp) THEN "combo_end"
  ELSE IF Val(resp.listPostings) = 0 THEN "combo_end"
  ELSE "items"
\* Where the while loop goes after a response (lines 256-267): out of the loop
\* when there is no data or no posting, else into the for loop, where
\* iterating a listPostings that is not a list raises TypeError.
FetchOutcome(resp) ==
  IF NoData(resp) THEN "combo_end"
  ELSE IF resp.status = "notalist" THEN "combo_exc"
  ELSE IF Val(resp.listPostings) = 0 THEN "combo_end"
  ELSE "items"

\* Python truthiness of the lastPage member, with the default True of
\* .get("lastPage", True) for an absent one.
LastPage(info) ==
  IF info.v.lastPage.j = "absent" THEN TRUE
  ELSE IF info.v.lastPage.j = "null" THEN FALSE
  ELSE info.v.lastPage.v
\* self.pagination_info.get raises AttributeError when pagination_info is
\* not a dict.
HasNextRaises(info) == info.j # "obj"
\* Variant of has_next_page without the negation.
HasNextInverted(info) == LastPage(info)
\* "not self.pagination_info.get('lastPage', True)"
has_next_page(info) == ~LastPage(info)
\* What lines 401-403 of fetch_listings do with pagination_info.
PageDecision(info) ==
  IF HasNextRaises(info) THEN "raise"
  ELSE IF has_next_page(info) THEN "next" ELSE "stop"

\* Variant of PageRequest whose offset is the end of the page, not its start.
PageRequestFromPageEnd(p, zone_key, operation_key) ==
  [page |-> p, offset |-> p * listings_per_page, limit |-> listings_per_page,
   province_code |-> ZONES_CONFIG[zone_key].province_code,
   operation_code |-> OPERATION_TYPES[operation_key].code,
   zone_code |-> ZONES_CONFIG[zone_key].zone_code]
\* The request get_property sends for a page (lines 249-254), with the codes
\* fetch_listings_for_zone read from the catalog (lines 176-178).
PageRequest(p, zone_key, operation_key) ==
  [page |-> p, offset |-> (p - 1) * listings_per_page, limit |-> listings_per_page,
   province_code |-> ZONES_CONFIG[zone_key].province_code,
   operation_code |-> OPERATION_TYPES[operation_key].code,
   zone_code |-> ZONES_CONFIG[zone_key].zone_code]

(***************************************************************************)
(* Orchestrator decisions (ingestion.py).                                  *)
(***************************************************************************)
\* The logging of the run header indexes ZONES_CONFIG[z] and
\* OPERATION_TYPES[o] for every requested key: KeyError on an unknown one.
HeaderRaises(zones, operations) ==
  \/ \E i \in 1..Len(zones) : ~KnownZone(zones[i])
  \/ \E i \in 1..Len(operations) : ~KnownOperation(operations[i])

\* Variant of StatsCompleted that counts a combination as one listing.
StatsCompletedByOne(st, count) == [st EXCEPT !.total_listings = @ + 1]
\* Normal end of the loop over the generator: line 111.
StatsCompleted(st, count) == [st EXCEPT !.total_listings = @ + count]

\* Variant of SinkInvoked that ignores the flag.
SinkAlwaysInvoked(save_to_db) == TRUE
\* 'if save_to_db: self.save_listing_to_db(listing)' (lines 97-98).
SinkInvoked(save_to_db) == save_to_db

\* How a call of save_listing_to_db ends: it commits and returns True ("ok");
\* merge or commit raises, the handler rolls back and returns False ("fail");
\* or the handler itself raises, in logger.error or in session.rollback, and
\* the exception leaves save_listing_to_db ("raise").
CommitOutcomes == {"ok", "fail", "raise"}

\* The handlers of scrape_zone_operation, lines 105-108 and 116-118.
StatsFailed(st) == [st EXCEPT !.errors = @ + 1]

\* Where scrape_zone_operation returns to: the nested loops of
\* scrape_all_zones_operations (line 165), or the caller of a direct call.
AfterReturn == IF args.entry = "single" THEN "returned" ELSE "zone_done"

\* The generator resumes after a yield or a continue: the next posting of the
\* page, or the end of the turn of the while loop.
Resume(remaining) == IF remaining = 0 THEN "page_end" ELSE "items"

\* The next turn of 'for zone_key in zones: for operation_key in operations',
\* or over when the loops are exhausted.
NextCombination(over) ==
  IF oi < Len(args.operations)
  THEN oi' = oi + 1 /\ zi' = zi /\ pc' = "combo"
  ELSE IF zi < Len(args.zones)
       THEN zi' = zi + 1 /\ oi' = 1 /\ pc' = "combo"
       ELSE pc' = over /\ UNCHANGED <<zi, oi>>

\* scrape_zone_operation has returned: its locals and those of the generator
\* it consumed are gone, and so is the history kept of the combination.
LocalsGone ==
  /\ listings_count' = 0
  /\ page' = 1 /\ pages_fetched' = 0
  /\ id_bound' = FALSE
  /\ left' = 0
  /\ reqLog' = <<>>
  /\ cyielded' = 0
  /\ nout' = [kind |-> "pending"]

(***************************************************************************)
(* Actions of a run.                                                       *)
(***************************************************************************)
\* scrape_all_zones_operations, lines 137-140: the start time.
ScrapeAllStart ==
  /\ pc = "call" /\ args.entry = "all"
  /\ args' = [args EXCEPT !.zones = OrDefault(@, ZONES_TO_SCRAPE),
                          !.operations = OrDefault(@, OPERATIONS_TO_SCRAPE)]
  /\ stats' = [stats EXCEPT !.start_time = Some(clock)]
  /\ pc' = "header"
  /\ UNCHANGED <<returned_runs, zi, oi, listings_count, connVars, sinkVars, served, tally,
                 cyielded, nice, normVars, attempted, ingestion_runs, slept>>

\* The run header, lines 142-150, and the entry of the loops.
Header ==
  /\ pc = "header"
  /\ pc' = IF HeaderRaises(args.zones, args.operations) THEN "raised" ELSE "combo"
  /\ UNCHANGED <<args, returned_runs, zi, oi, stats, listings_count, connVars, sinkVars, served,
                 tally, cyielded, nice, normVars, attempted, ingestion_runs, slept>>

\* A direct call of scrape_zone_operation (examples.py).
DirectCall ==
  /\ pc = "call" /\ args.entry = "single"
  /\ pc' = "combo"
  /\ UNCHANGED <<args, returned_runs, zi, oi, stats, listings_count, connVars, sinkVars, served,
                 tally, cyielded, nice, normVars, attempted, ingestion_runs, slept>>

\* scrape_zone_operation up to the first next() on the generator
\* (lines 78-95), fetch_listings_for_zone and fetch_listings up to the loop;
\* with an unknown key, lines 81-87: an error is logged and 0 returned.
ComboBegin ==
  /\ pc = "combo" /\ args.entry \in {"all", "single"}
  /\ attempted' = Append(attempted, <<args.zones[zi], args.operations[oi]>>)
  /\ IF ~KnownZone(args.zones[zi]) \/ ~KnownOperation(args.operations[oi])
     THEN /\ pc' = AfterReturn
          /\ UNCHANGED <<listings_count, page, pages_fetched, id_bound, left,
                         reqLog, cyielded>>
     ELSE /\ listings_count' = 0
          /\ page' = 1 /\ pages_fetched' = 0
          /\ id_bound' = FALSE
          /\ left' = 0
          /\ reqLog' = <<>>
          /\ cyielded' = 0
          /\ pc' = "fetch"
  /\ UNCHANGED <<args, returned_runs, zi, oi, stats, pagination_info, sinkVars, served, tally,
                 nice, normVars, ingestion_runs, slept>>

\* One turn of the while loop up to the for loop (lines 241-264): the cap,
\* the request and the checks of the response.
FetchPage ==
  /\ pc = "fetch"
  /\ IF CapReached(args.max_pages, pages_fetched)
     THEN /\ pc' = "combo_end"
          /\ UNCHANGED <<pagination_info, left, reqLog, served, tally, nice,
                         slept>>
     ELSE \E resp \in Responses(MaxItemsTotal - served) :
            /\ reqLog' = Append(reqLog,
                                [req |-> PageRequest(page, args.zones[zi],
                                                     args.operations[oi]),
                                 resp |-> resp])
            /\ slept' = 0
            /\ pagination_info' = StorePaging(pagination_info, resp)
            /\ tally' = IF GetPropertyFails(resp)
                        THEN [tally EXCEPT !.fetchFail = @ + 1] ELSE tally
            /\ nice' = (nice /\ resp.status = "ok" /\ resp.listPostings # None
                        /\ resp.paging = Paging(TRUE))
            /\ pc' = FetchOutcome(resp)
            /\ IF FetchOutcome(resp) = "items"
               THEN /\ left' = Val(resp.listPostings)
                    /\ served' = served + Val(resp.listPostings)
               ELSE UNCHANGED <<left, served>>
  /\ UNCHANGED <<args, returned_runs, zi, oi, stats, listings_count, page, pages_fetched, id_bound,
                 sinkVars, cyielded, normVars, attempted, ingestion_runs>>

\* One turn of the for loop (lines 267-398), up to the yield of line 394 or
\* to the continue of the turn.
TransformPosting ==
  /\ pc = "items" /\ left > 0
  /\ \E posting \in RunPostings :
       LET out == Normalize(posting, clock)
           bound == id_bound \/ posting.type = "dict"
       IN
         /\ IF out.kind = "error" /\ ~bound
            THEN \* the handler's print reads the unassigned listing_id
                 /\ pc' = "combo_exc"
                 /\ UNCHANGED <<left, id_bound>>
            ELSE /\ pc' = IF out.kind = "yield" THEN "yielded"
                          ELSE Resume(left - 1)
                 /\ left' = left - 1 /\ id_bound' = bound
         /\ cyielded' = cyielded + (IF out.kind = "yield" THEN 1 ELSE 0)
         /\ nout' = IF out.kind = "yield" THEN out ELSE nout
         /\ tally' =
              IF out.kind = "yield" THEN [tally EXCEPT !.yielded = @ + 1]
              ELSE IF out.kind = "skip" THEN [tally EXCEPT !.noid = @ + 1]
              ELSE [tally EXCEPT !.malformed = @ + 1]
         /\ nice' = (nice /\ out.kind = "yield")
  /\ UNCHANGED <<args, returned_runs, zi, oi, stats, listings_count, page, pages_fetched,
                 pagination_info, reqLog, sinkVars, served, nraw, attempted,
                 ingestion_runs, slept>>

\* The body of the loop of scrape_zone_operation for the listing received,
\* lines 97-98: save_listing_to_db, and the handler of lines 105-108 when an
\* exception leaves it (one error, continue: the listing is not counted).
SaveListing ==
  /\ pc = "yielded" /\ args.entry \in {"all", "single"}
  /\ SinkInvoked(args.save_to_db)
  /\ \E outcome \in CommitOutcomes :
       /\ clock' = clock + 1
       /\ store' = save_listing_to_db(store, nout.listing, clock + 1,
                                      outcome = "ok")
       /\ lastSave' = Some([listing |-> nout.listing, ok |-> outcome = "ok"])
       /\ tally' = IF outcome = "ok" THEN tally
                   ELSE [tally EXCEPT !.saveFail = @ + 1]
       /\ nice' = (nice /\ outcome = "ok")
       /\ IF outcome = "raise"
          THEN stats' = StatsFailed(stats) /\ pc' = Resume(left)
          ELSE stats' = stats /\ pc' = "saved"
  /\ nout' = [kind |-> "pending"]
  /\ UNCHANGED <<args, returned_runs, zi, oi, listings_count, connVars, prevSave, served,
                 cyielded,
                 nraw, attempted, ingestion_runs, slept>>

\* Lines 100-103: the listing is counted and the generator resumed.
CountListing ==
  /\ args.entry \in {"all", "single"}
  /\ \/ pc = "saved"
     \/ pc = "yielded" /\ ~SinkInvoked(args.save_to_db)
  /\ listings_count' = listings_count + 1
  /\ pc' = Resume(left)
  /\ nout' = [kind |-> "pending"]
  /\ UNCHANGED <<args, returned_runs, zi, oi, stats, page, pages_fetched, pagination_info,
                 id_bound, left, reqLog, sinkVars, served, tally, cyielded, nice,
                 nraw, attempted, ingestion_runs, slept>>

\* The end of a turn of the while loop (lines 400-409): has_next_page, which
\* raises when pagination_info is not a dict, the break on the last page,
\* else the two counters and time.sleep(0.5).
PageEnd ==
  /\ pc = "page_end"
  /\ IF PageDecision(pagination_info) = "next"
     THEN /\ page' = page + 1
          /\ pages_fetched' = pages_fetched + 1
          /\ slept' = slept + 5
          /\ pc' = "fetch"
     ELSE /\ pc' = IF PageDecision(pagination_info) = "raise"
                   THEN "combo_exc" ELSE "combo_end"
          /\ UNCHANGED <<page, pages_fetched, slept>>
  /\ UNCHANGED <<args, returned_runs, zi, oi, stats, listings_count, pagination_info, id_bound,
                 left, reqLog, sinkVars, served, tally, cyielded, nice,
                 normVars, attempted, ingestion_runs>>

\* The generator is exhausted: lines 110-111.
ComboEnd ==
  /\ pc = "combo_end" /\ args.entry \in {"all", "single"}
  /\ stats' = StatsCompleted(stats, listings_count)
  /\ pc' = "counted"
  /\ UNCHANGED <<args, returned_runs, zi, oi, listings_count, connVars, sinkVars, served, tally,
                 cyielded, nice, normVars, attempted, ingestion_runs, slept>>

\* Lines 112-114: the combination is completed, scrape_zone_operation
\* returns.
ComboReturn ==
  /\ pc = "counted"
  /\ stats' = [stats EXCEPT !.total_operations_processed = @ + 1]
  /\ pc' = AfterReturn
  /\ LocalsGone
  /\ UNCHANGED <<args, returned_runs, zi, oi, pagination_info, sinkVars, served, tally, nice,
                 nraw, attempted, ingestion_runs, slept>>

\* The generator raised: lines 116-119.
ComboExc ==
  /\ pc = "combo_exc" /\ args.entry \in {"all", "single"}
  /\ stats' = StatsFailed(stats)
  /\ pc' = AfterReturn
  /\ LocalsGone
  /\ UNCHANGED <<args, returned_runs, zi, oi, pagination_info, sinkVars, served, tally, nice,
                 nraw, attempted, ingestion_runs, slept>>

\* Line 165 and the next turn of the loops.
ZoneDone ==
  /\ pc = "zone_done"
  /\ stats' = [stats EXCEPT !.total_zones_processed = @ + 1]
  /\ NextCombination("summary")
  /\ UNCHANGED <<args, returned_runs, listings_count, connVars, sinkVars, served, tally,
                 cyielded, nice, normVars, attempted, ingestion_runs, slept>>

\* After the loops, line 167: the end time.
Summary ==
  /\ pc = "summary"
  /\ stats' = [stats EXCEPT !.end_time = Some(clock)]
  /\ pc' = "report"
  /\ UNCHANGED <<args, returned_runs, zi, oi, listings_count, connVars, sinkVars, served, tally,
                 cyielded, nice, normVars, attempted, ingestion_runs, slept>>

\* Lines 168-184: the summary is logged and self.stats returned.
ReturnStats ==
  /\ pc = "report"
  /\ returned_runs' = Append(returned_runs,
                             [stats |-> stats, yielded |-> tally.yielded])
  /\ pc' = "returned"
  /\ UNCHANGED <<args, zi, oi, stats, listings_count, connVars, sinkVars, served, tally,
                 cyielded, nice, normVars, attempted, ingestion_runs, slept>>

Next ==
  \/ ScrapeAllStart
  \/ Header
  \/ DirectCall
  \/ ComboBegin
  \/ FetchPage
  \/ TransformPosting
  \/ SaveListing
  \/ CountListing
  \/ PageEnd
  \/ ComboEnd
  \/ ComboReturn
  \/ ComboExc
  \/ ZoneDone
  \/ Summary
  \/ ReturnStats

Spec == Init /\ [][Next]_vars

(***************************************************************************)
(* The two wrappers of scrape_all_zones_operations, and a call that leaves *)
(* zones and operations to their defaults.                                 *)
(***************************************************************************)
\* The page caps the wrappers are called with: one page, and 5, the default
\* of scrape_capital_federal_only.
WrapperCalls ==
  [entry : {"capital_federal_only"}, zones : {<<>>}, operations : {<<>>},
   max_pages : {Some(1), Some(5)}, save_to_db : {TRUE}]
  \cup
  [entry : {"all_configured"}, zones : {<<>>}, operations : {<<>>},
   max_pages : {Some(1)}, save_to_db : {TRUE}]
  \cup
  [entry : {"all"}, zones : {<<>>}, operations : {<<>>},
   max_pages : {Some(1)}, save_to_db : {FALSE}]

InitWrappers ==
  /\ args \in WrapperCalls
  /\ pc = "call"
  /\ InitCommon
  /\ nraw = NonDictPosting /\ nout = [kind |-> "pending"]

\* scrape_capital_federal_only(max_pages): scrape_all_zones_operations over
\* Capital Federal, sale and rent, with persistence on.
ScrapeCapitalFederalOnly ==
  /\ pc = "call" /\ args.entry = "capital_federal_only"
  /\ args' = [entry |-> "all", zones |-> <<"capital_federal">>,
              operations |-> <<"sale", "rent">>,
              max_pages |-> args.max_pages, save_to_db |-> TRUE]
  /\ UNCHANGED <<pc, returned_runs, zi, oi, stats, listings_count, connVars,
                 sinkVars, served, tally, cyielded, nice, normVars, attempted,
                 ingestion_runs, slept>>

\* scrape_all_configured_zones(max_pages): scrape_all_zones_operations over
\* ZONES_TO_SCRAPE and OPERATIONS_TO_SCRAPE, with persistence on.
ScrapeAllConfiguredZones ==
  /\ pc = "call" /\ args.entry = "all_configured"
  /\ args' = [entry |-> "all", zones |-> ZONES_TO_SCRAPE,
              operations |-> OPERATIONS_TO_SCRAPE,
              max_pages |-> args.max_pages, save_to_db |-> TRUE]
  /\ UNCHANGED <<pc, returned_runs, zi, oi, stats, listings_count, connVars,
                 sinkVars, served, tally, cyielded, nice, normVars, attempted,
                 ingestion_runs, slept>>

NextWrappers == ScrapeCapitalFederalOnly \/ ScrapeAllConfiguredZones \/ Next

SpecWrappers == InitWrappers /\ [][NextWrappers]_vars

(***************************************************************************)
(* Two calls of scrape_all_zones_operations on one MultiZoneScraper.       *)
(***************************************************************************)
TwiceCalls ==
  [entry : {"all"}, zones : {<<"capital_federal">>},
   operations : {<<"sale">>, <<"sale", "rent">>},
   max_pages : {None, Some(1)}, save_to_db : {FALSE}]

InitTwice ==
  /\ args \in TwiceCalls
  /\ pc = "call"
  /\ InitCommon
  /\ nraw = NonDictPosting /\ nout = [kind |-> "pending"]

\* The caller makes the same call again on the scraper that has returned:
\* self.stats and the connector are those the first call left, only the
\* locals of the call are new.
CallAgain ==
  /\ pc = "returned" /\ args.entry = "all"
  /\ Len(returned_runs) = 1
  /\ pc' = "call"
  /\ zi' = 1 /\ oi' = 1
  /\ UNCHANGED <<args, returned_runs, stats, listings_count, connVars, sinkVars,
                 served, tally, cyielded, nice, normVars, attempted,
                 ingestion_runs, slept>>

NextTwice ==
  \/ ScrapeAllStart
  \/ Header
  \/ ComboBegin
  \/ FetchPage
  \/ TransformPosting
  \/ CountListing
  \/ PageEnd
  \/ ComboEnd
  \/ ComboReturn
  \/ ComboExc
  \/ ZoneDone
  \/ Summary
  \/ ReturnStats
  \/ CallAgain

SpecTwice == InitTwice /\ [][NextTwice]_vars

(***************************************************************************)
(* A run under main.py that the operator may interrupt.                    *)
(***************************************************************************)
\* The statements of a run between which KeyboardInterrupt can arrive.
InterruptPoints ==
  {"call", "header", "combo", "fetch", "items", "yielded", "saved", "page_end",
   "combo_end", "counted", "combo_exc", "zone_done", "summary", "report"}

\* KeyboardInterrupt raised at any point of scrape_all_zones_operations. It
\* is a BaseException: the "except Exception" handlers of get_property,
\* fetch_listings, save_listing_to_db and scrape_zone_operation do not catch
\* it, the frames unwind with their locals, and main's handler (main.py lines
\* 141-144) prints a message, closes the session and returns 1.
Interrupt ==
  /\ args.entry = "all"
  /\ pc \in InterruptPoints
  /\ pc' = "interrupted"
  /\ LocalsGone
  /\ UNCHANGED <<args, returned_runs, zi, oi, stats, pagination_info, sinkVars, served, tally,
                 nice, nraw, attempted, ingestion_runs, slept>>

NextInterruptible == Next \/ Interrupt

SpecInterrupt == Init /\ [][NextInterruptible]_vars

(***************************************************************************)
(* The connector alone: a caller iterating fetch_listings_for_zone or      *)
(* fetch_listings_multi_zone.                                              *)
(***************************************************************************)
\* Variant of ZoneLookupOk that forgets the check of the operation key.
ZoneLookupChecksZoneOnly(zone_key, operation_key) == KnownZone(zone_key)
\* fetch_listings_for_zone, lines 165-171: both keys are in the catalog, so
\* the call goes on to fetch_listings; otherwise it prints and returns.
ZoneLookupOk(zone_key, operation_key) ==
  KnownZone(zone_key) /\ KnownOperation(operation_key)

FetchCalls ==
  [entry : {"fetch"}, zones : {<<"capital_federal">>, <<"atlantis">>},
   operations : {<<"sale">>, <<"barter">>},
   max_pages : {None, Some(1)}, save_to_db : {FALSE}]

InitFetch ==
  /\ args \in FetchCalls
  /\ pc = "call"
  /\ InitCommon
  /\ nraw = NonDictPosting /\ nout = [kind |-> "pending"]

\* connector.authenticate(), which a caller may run before it fetches:
\* time.sleep(0.5) and a print.
Authenticate ==
  /\ pc = "call" /\ args.entry \in {"fetch", "multi"}
  /\ slept = 0
  /\ slept' = 5
  /\ UNCHANGED <<args, returned_runs, pc, zi, oi, stats, listings_count, connVars, sinkVars,
                 served, tally, cyielded, nice, normVars, attempted, ingestion_runs>>

\* The first next() on fetch_listings_for_zone(zone_key, operation_key,
\* max_pages), up to the while loop of fetch_listings or to the early return.
FetchForZone ==
  /\ pc = "call" /\ args.entry = "fetch"
  /\ pc' = IF ZoneLookupOk(args.zones[1], args.operations[1])
           THEN "fetch" ELSE "exhausted"
  /\ UNCHANGED <<args, returned_runs, zi, oi, stats, listings_count, connVars, sinkVars, served,
                 tally, cyielded, nice, normVars, attempted, ingestion_runs, slept>>

\* The caller's loop has received the listing and asks for the next one.
CallerNext ==
  /\ pc = "yielded" /\ args.entry \in {"fetch", "multi"}
  /\ pc' = Resume(left)
  /\ nout' = [kind |-> "pending"]
  /\ UNCHANGED <<args, returned_runs, zi, oi, stats, listings_count, connVars, sinkVars, served,
                 tally, cyielded, nice, nraw, attempted, ingestion_runs, slept>>

\* The generator ends: StopIteration ends the caller's loop.
GeneratorEnd ==
  /\ pc = "combo_end" /\ args.entry = "fetch"
  /\ pc' = "exhausted"
  /\ UNCHANGED <<args, returned_runs, zi, oi, stats, listings_count, connVars, sinkVars, served,
                 tally, cyielded, nice, normVars, attempted, ingestion_runs, slept>>

\* An exception leaves the generator and reaches the caller.
GeneratorRaise ==
  /\ pc = "combo_exc" /\ args.entry \in {"fetch", "multi"}
  /\ pc' = "raised"
  /\ UNCHANGED <<args, returned_runs, zi, oi, stats, listings_count, connVars, sinkVars, served,
                 tally, cyielded, nice, normVars, attempted, ingestion_runs, slept>>

NextFetch ==
  \/ Authenticate
  \/ FetchForZone
  \/ FetchPage
  \/ TransformPosting
  \/ CallerNext
  \/ PageEnd
  \/ GeneratorEnd
  \/ GeneratorRaise

SpecFetch == InitFetch /\ [][NextFetch]_vars

\* Calls of fetch_listings_multi_zone: known and unknown keys, one page per
\* combination or no cap.
MultiCalls ==
  [entry : {"multi"},
   zones : {<<"capital_federal">>, <<"atlantis">>,
            <<"capital_federal", "atlantis", "zona_norte_gba">>},
   operations : {<<"sale">>, <<"sale", "barter">>, <<"sale", "rent">>},
   max_pages : {None, Some(1)}, save_to_db : {FALSE}]

InitMulti ==
  /\ args \in MultiCalls
  /\ pc = "call"
  /\ InitCommon
  /\ nraw = NonDictPosting /\ nout = [kind |-> "pending"]

\* The first next() on fetch_listings_multi_zone, lines 203-206: into the
\* loops.
FetchMultiZone ==
  /\ pc = "call" /\ args.entry = "multi"
  /\ pc' = "combo"
  /\ UNCHANGED <<args, returned_runs, zi, oi, stats, listings_count, connVars, sinkVars, served,
                 tally, cyielded, nice, normVars, attempted, ingestion_runs, slept>>

\* One turn of the loops, lines 208-219: a combination with a key that is
\* not in the catalog is passed over with 'continue', without a word; the
\* others start fetch_listings_for_zone and fetch_listings.
MultiCombo ==
  /\ pc = "combo" /\ args.entry = "multi"
  /\ IF ~KnownZone(args.zones[zi]) \/ ~KnownOperation(args.operations[oi])
     THEN /\ NextCombination("exhausted")
          /\ UNCHANGED <<page, pages_fetched, id_bound, left, reqLog, cyielded,
                         attempted>>
     ELSE /\ attempted' = Append(attempted, <<args.zones[zi], args.operations[oi]>>)
          /\ page' = 1 /\ pages_fetched' = 0
          /\ id_bound' = FALSE
          /\ left' = 0
          /\ reqLog' = <<>>
          /\ cyielded' = 0
          /\ pc' = "fetch"
          /\ UNCHANGED <<zi, oi>>
  /\ UNCHANGED <<args, returned_runs, stats, listings_count, pagination_info, sinkVars, served,
                 tally, nice, normVars, ingestion_runs, slept>>

\* The inner generator is exhausted: time.sleep(2) (line 222) and the next
\* turn of the loops.
MultiComboEnd ==
  /\ pc = "combo_end" /\ args.entry = "multi"
  /\ slept' = slept + 20
  /\ NextCombination("exhausted")
  /\ UNCHANGED <<args, returned_runs, stats, listings_count, connVars, sinkVars, served, tally,
                 cyielded, nice, normVars, attempted, ingestion_runs>>

NextMulti ==
  \/ Authenticate
  \/ FetchMultiZone
  \/ MultiCombo
  \/ FetchPage
  \/ TransformPosting
  \/ CallerNext
  \/ PageEnd
  \/ MultiComboEnd
  \/ GeneratorRaise

SpecMulti == InitMulti /\ [][NextMulti]_vars

(***************************************************************************)
(* The sink alone: any sequence of upserts of unified listings.            *)
(***************************************************************************)
SinkListings ==
  [platform : {"zonaprop", "mercadolibre"},
   platform_listing_id : {"1", "2"},
   listing_url : {<<>>},
   operation_type : {"sale"},
   property_type : {Str(Unknown)},
   currency : {"USD"},
   price : {None, Some(Dec(100, 0))},
   expenses : {None},
   status : {"active"},
   address_text : {PyNone},
   title : {PyNone},
   description : {PyNone},
   images : {<<>>},
   agent_publisher : {PyNone},
   geo_lat : {None},
   geo_lng : {None},
   surface_total : {None},
   surface_covered : {None},
   rooms : {None},
   bedrooms : {None},
   bathrooms : {None},
   source_created_at : {Some(0)},
   source_updated_at : {None}]

SinkCall ==
  [entry |-> "single", zones |-> <<"capital_federal">>, operations |-> <<"sale">>,
   max_pages |-> None, save_to_db |-> TRUE]

InitSink ==
  /\ args = SinkCall
  /\ pc = "sink"
  /\ InitCommon
  /\ nraw = NonDictPosting /\ nout = [kind |-> "pending"]

\* One call of save_listing_to_db.
SinkSave ==
  /\ pc = "sink" /\ clock < MaxSaves
  /\ \E listing \in SinkListings, outcome \in CommitOutcomes :
       /\ clock' = clock + 1
       /\ store' = save_listing_to_db(store, listing, clock + 1, outcome = "ok")
       /\ lastSave' = Some([listing |-> listing, ok |-> outcome = "ok"])
       /\ prevSave' = lastSave
  /\ UNCHANGED <<args, returned_runs, pc, zi, oi, stats, listings_count, connVars, served, tally,
                 cyielded, nice, normVars, attempted, ingestion_runs, slept>>

SpecSink == InitSink /\ [][SinkSave]_vars

(***************************************************************************)
(* The sink over several executions of main.py against one database.       *)
(***************************************************************************)
\* init_db(): Base.metadata.drop_all(engine), then create_all(engine): the
\* table is dropped with its rows and created empty.
init_db(table) == {}

\* One start of main.py: the module calls init_db() when it is loaded, before
\* main() constructs the scraper of the new process.
MainStartup ==
  /\ pc = "sink"
  /\ store' = init_db(store)
  /\ ingestion_runs' = init_db(ingestion_runs)
  /\ lastSave' = None /\ prevSave' = None
  /\ UNCHANGED <<args, returned_runs, pc, zi, oi, stats, listings_count, connVars, clock, served,
                 tally, cyielded, nice, normVars, attempted, slept>>

NextRestart == SinkSave \/ MainStartup

SpecRestart == InitSink /\ [][NextRestart]_vars

(***************************************************************************)
(* The primary key alone: pk_id over pairs of listings UnifiedListing      *)
(* accepts.                                                                *)
(***************************************************************************)
\* Listings offered to UnifiedListing: every platform literal and one that is
\* not a literal, identifiers with and without the separator, a status that
\* is a literal and one that is not.
KeyCandidates ==
  {[platform |-> p, platform_listing_id |-> i, listing_url |-> <<>>,
    operation_type |-> "sale", property_type |-> Str(Unknown),
    currency |-> "USD", price |-> Some(Dec(100, 0)), expenses |-> None,
    status |-> st, address_text |-> PyNone,
    geo_lat |-> None, geo_lng |-> None, surface_total |-> None,
    surface_covered |-> None, rooms |-> None, bedrooms |-> None,
    bathrooms |-> None, title |-> PyNone, description |-> PyNone,
    images |-> <<>>, agent_publisher |-> PyNone,
    source_created_at |-> Some(0), source_updated_at |-> None] :
     p \in {"zonaprop", "mercadolibre", "properati", "argenprop", "zonaprop_ar"},
     i \in {"", "1", "2", "ar_1", "1_2", "_1"},
     st \in {"active", "Active"}}
KeyListings == {l \in KeyCandidates : UnifiedListingValid(l)}

InitKey ==
  /\ args = SinkCall
  /\ pc = "key"
  /\ InitCommon
  /\ nraw \in KeyListings \X KeyListings
  /\ nout = [kind |-> "pending"]

\* pk_id computed for both listings, as save_listing_to_db does (line 49).
KeyApply ==
  /\ pc = "key" /\ nout.kind = "pending"
  /\ nout' = [kind |-> "keys", a |-> pk_id(nraw[1]), b |-> pk_id(nraw[2])]
  /\ UNCHANGED <<args, returned_runs, pc, zi, oi, stats, listings_count, connVars,
                 sinkVars, served, tally, cyielded, nice, nraw, attempted,
                 ingestion_runs, slept>>

SpecKey == InitKey /\ [][KeyApply]_vars

(***************************************************************************)
(* The normaliser alone: the try block applied to any raw posting.         *)
(***************************************************************************)
\* get_next_page_offset over the offset and limit members of
\* pagination_info: .get("offset", 0) + .get("limit", 30). A null member is
\* None, and the sum raises TypeError (the result None here).
get_next_page_offset(info) ==
  IF info.offset.j = "null" \/ info.limit.j = "null" THEN None
  ELSE Some((IF info.offset.j = "absent" THEN 0 ELSE info.offset.v)
            + (IF info.limit.j = "absent" THEN 30 ELSE info.limit.v))

OffsetPagings ==
  [offset : {JAbsent, JNull, JObj(0), JObj(30), JObj(60)},
   limit : {JAbsent, JNull, JObj(20), JObj(30)}]

InitOffset ==
  /\ args = SinkCall
  /\ pc = "offset"
  /\ InitCommon
  /\ nraw \in OffsetPagings
  /\ nout = [kind |-> "pending"]

OffsetApply ==
  /\ pc = "offset" /\ nout.kind = "pending"
  /\ nout' = [kind |-> "offset", value |-> get_next_page_offset(nraw)]
  /\ UNCHANGED <<args, returned_runs, pc, zi, oi, stats, listings_count, connVars,
                 sinkVars, served, tally, cyielded, nice, nraw, attempted,
                 ingestion_runs, slept>>

SpecOffset == InitOffset /\ [][OffsetApply]_vars

InitNorm ==
  /\ args = SinkCall
  /\ pc = "norm"
  /\ InitCommon
  /\ nraw \in RawPostings
  /\ nout = [kind |-> "pending"]

NormApply ==
  /\ pc = "norm" /\ nout.kind = "pending"
  /\ nout' = Normalize(nraw, clock)
  /\ UNCHANGED <<args, returned_runs, pc, zi, oi, stats, listings_count, connVars, sinkVars, served,
                 tally, cyielded, nice, nraw, attempted, ingestion_runs, slept>>

SpecNorm == InitNorm /\ [][NormApply]_vars

(***************************************************************************)
(* Properties.                                                             *)
(***************************************************************************)
SameKey(a, b) ==
  a.platform = b.platform /\ a.platform_listing_id = b.platform_listing_id
RowsOf(listing) == {r \in store : SameKey(r, listing)}
\* A table without the ingested_at column.
Strip(table) ==
  {[f \in DOMAIN r \ {"ingested_at"} |-> r[f]] : r \in table}

\* C1: key uniqueness. The store never holds two records with the same
\* (platform, platform_listing_id), and once a listing has been upserted
\* successfully the store holds exactly one record for its natural key,
\* whatever was upserted before it and in whatever order.
C1_KeyUniqueness ==
  /\ \A r1, r2 \in store : SameKey(r1, r2) => r1 = r2
  /\ \A c \in {prevSave, lastSave} :
       (c # None /\ Val(c).ok) => Cardinality(RowsOf(Val(c).listing)) = 1

\* Two different listings with the same natural key have both been upserted.
C1_Witness ==
  /\ prevSave # None /\ lastSave # None
  /\ Val(prevSave).ok /\ Val(lastSave).ok
  /\ SameKey(Val(prevSave).listing, Val(lastSave).listing)
  /\ Val(prevSave).listing # Val(lastSave).listing

\* C2: idempotence. A call of save_listing_to_db with the listing of the
\* successful call just before it leaves the store with the same records and
\* the same values in every column but ingested_at, and adds no record.
C2_Idempotent ==
  [][(/\ clock' = clock + 1
      /\ lastSave # None /\ Val(lastSave).ok
      /\ lastSave' # None /\ Val(lastSave').listing = Val(lastSave).listing)
     => (/\ Strip(store') = Strip(store)
         /\ Cardinality(store') = Cardinality(store))]_vars

\* The same listing has been upserted twice in a row, both times with success.
C2_Witness ==
  /\ prevSave # None /\ lastSave # None
  /\ Val(prevSave).ok /\ Val(lastSave).ok
  /\ Val(prevSave).listing = Val(lastSave).listing
  /\ Cardinality(store) = 1

\* A logged response that serves postings and says more pages follow.
Continuing(e) ==
  /\ e.resp.status = "ok" /\ e.resp.listPostings # None
  /\ Val(e.resp.listPostings) > 0
  /\ e.resp.paging = Paging(FALSE)
\* A logged response that serves postings and reports the last-page flag.
Flagged(e) ==
  /\ e.resp.status = "ok" /\ e.resp.listPostings # None
  /\ Val(e.resp.listPostings) > 0
  /\ e.resp.paging = Paging(TRUE)
\* A logged request that failed: an exception or a non-2xx status in
\* get_property.
TransportFailed(e) == GetPropertyFails(e.resp)
\* The last request of the combination failed.
LastRequestFailed == reqLog # <<>> /\ TransportFailed(reqLog[Len(reqLog)])

RECURSIVE PostingsIn(_)
\* The postings served by the responses of a log.
PostingsIn(log) ==
  IF log = <<>> THEN 0
  ELSE LET e == log[Len(log)]
       IN PostingsIn(SubSeq(log, 1, Len(log) - 1))
          + (IF e.resp.status = "ok" /\ e.resp.listPostings # None
             THEN Val(e.resp.listPostings) ELSE 0)

\* C3: pagination termination. The i-th request of a combination is for
\* page i; a page that reports the last-page flag is the last one requested
\* (the connector is past its request and never back at the top of the
\* loop); and the connector does not stop after a page that says more pages
\* follow unless the page cap is reached. So with the flag on page N, and
\* max_pages absent or larger than N, exactly N requests are issued.
C3_PaginationTermination ==
  LET N == Len(reqLog) IN
  /\ \A i \in 1..N : reqLog[i].req.page = i
  /\ \A i \in 1..N : Flagged(reqLog[i]) => (i = N /\ pc # "fetch")
  /\ (pc = "combo_end" /\ N >= 1 /\ Continuing(reqLog[N]))
       => (TruthyInt(args.max_pages) /\ N = Val(args.max_pages))

\* Page 1 said more pages follow, page 2 reported the flag, max_pages is
\* absent, and the generator is exhausted after two requests.
C3_Witness ==
  /\ pc = "combo_end" /\ args.max_pages = None
  /\ Len(reqLog) = 2
  /\ Continuing(reqLog[1]) /\ Flagged(reqLog[2])

\* C4: page cap. With max_pages = k >= 1 a combination never issues more
\* than k requests; when every page served postings and said more pages
\* follow, the generator ends after exactly k requests; and the listings
\* yielded are at most the postings of the pages requested.
C4_PageCap ==
  /\ TruthyInt(args.max_pages) => Len(reqLog) <= Val(args.max_pages)
  /\ (/\ pc = "combo_end" /\ TruthyInt(args.max_pages)
      /\ \A i \in 1..Len(reqLog) : Continuing(reqLog[i]))
       => Len(reqLog) = Val(args.max_pages)
  /\ cyielded <= PostingsIn(reqLog)

\* max_pages = 2, two pages that say more pages follow, generator exhausted.
C4_Witness ==
  /\ pc = "combo_end" /\ args.max_pages = Some(2)
  /\ Len(reqLog) = 2
  /\ Continuing(reqLog[1]) /\ Continuing(reqLog[2])
  /\ cyielded = 2

\* C5: failure isolation inside a page. No malformed posting, at any
\* position, makes an exception leave the generator, and a finished run has
\* transformed every posting it was served: each one was yielded or rejected
\* on its own, none was lost with the rest of its page.
C5_FailureIsolation ==
  /\ pc # "combo_exc"
  /\ pc = "returned"
       => tally.yielded + tally.malformed + tally.noid = served

\* C6: a posting without identity is never yielded, and each one rejected
\* is counted: a finished run in which nothing else failed reports as many
\* errors as it rejected postings without identity.
C6_NoIdentityCounted ==
  /\ \A r \in store : r.platform_listing_id # ""
  /\ lastSave # None => Val(lastSave).listing.platform_listing_id # ""
  /\ (/\ pc = "returned"
      /\ tally.malformed = 0 /\ tally.saveFail = 0 /\ tally.fetchFail = 0)
       => stats.errors = tally.noid

\* The geolocation object of a dict posting carries exactly one coordinate.
OneSided(posting) ==
  /\ GeoOf(posting).ok
  /\ (GeoOf(posting).latitude = None) # (GeoOf(posting).longitude = None)
\* The posting (one with a geolocation object) without its coordinates.
WithoutLocation(posting) ==
  [posting EXCEPT !.postingLocation.v.postingGeolocation = JAbsent]

\* C7: coordinate invariant. Every listing the try block yields, and every
\* stored record, has geo_lat absent iff geo_lng is absent; a posting with
\* one coordinate only, and yielded when it has no coordinates at all, is
\* yielded with both coordinates null.
C7_CoordinateInvariant ==
  /\ nout.kind = "yield"
       => (nout.listing.geo_lat = None) = (nout.listing.geo_lng = None)
  /\ \A r \in store : (r.geo_lat = None) = (r.geo_lng = None)
  /\ (/\ nout.kind # "pending" /\ nraw.type = "dict" /\ OneSided(nraw)
      /\ Normalize(WithoutLocation(nraw), clock).kind = "yield")
       => (/\ nout.kind = "yield"
           /\ nout.listing.geo_lat = None /\ nout.listing.geo_lng = None)

\* A posting with a latitude and no longitude has been yielded.
C7_Witness ==
  /\ nout.kind = "yield"
  /\ nraw.type = "dict" /\ OneSided(nraw)
  /\ GeoOf(nraw).latitude # None

\* The combinations of the call.
Combinations == Len(args.zones) * Len(args.operations)

\* C8: run statistics. After a run in which every response was one page of
\* postings flagged as the last page, every posting was yielded and every
\* write succeeded, total_listings is the number of postings served, every
\* combination is completed and errors is 0.
C8_RunStatistics ==
  (pc = "returned" /\ args.entry = "all" /\ nice)
    => (/\ stats.total_listings = served
        /\ stats.total_operations_processed = Combinations
        /\ stats.errors = 0)

\* Such a run over two combinations, one of them with a page of two postings
\* or both with a page of one.
C8_Witness ==
  /\ pc = "returned" /\ args.entry = "all" /\ nice
  /\ Combinations = 2 /\ served = 2
  /\ stats.total_listings = 2

\* C9: unknown keys. A run given an unknown zone or operation key does not
\* abort: it returns, having attempted every combination.
C9_UnknownKeysSkipped ==
  /\ pc # "raised"
  /\ (pc = "returned" /\ args.entry = "all")
       => stats.total_zones_processed = Combinations

\* C10: transport failure. A request that fails is the last of its
\* combination: the step of the failure takes the generator to its normal
\* end and touches neither the store nor the listings counted so far; the
\* combination then ends normally, adding the listings it counted to
\* total_listings and completing, without an error and leaving the store
\* alone; the loops then hand over to the next combination, or to the
\* summary after the last one; a run that returns has attempted every
\* combination.
C10_TransportFailureEndsPagination ==
  /\ [](\A i \in 1..Len(reqLog) :
          TransportFailed(reqLog[i])
            => (i = Len(reqLog) /\ pc \in {"combo_end", "counted"}))
  /\ []((pc = "returned" /\ args.entry = "all")
          => stats.total_zones_processed = Combinations)
  /\ [][(~LastRequestFailed /\ LastRequestFailed')
        => (/\ pc' = "combo_end"
            /\ store' = store /\ stats' = stats
            /\ listings_count' = listings_count)]_vars
  /\ [][(pc = "combo_end" /\ LastRequestFailed)
        => (/\ stats' = [stats EXCEPT !.total_listings = @ + listings_count]
            /\ store' = store
            /\ pc' = "counted")]_vars
  /\ [][(pc = "counted" /\ LastRequestFailed)
        => (/\ stats' = [stats EXCEPT !.total_operations_processed = @ + 1]
            /\ store' = store
            /\ pc' = IF args.entry = "single" THEN "returned" ELSE "zone_done")]_vars
  /\ [][pc = "zone_done"
        => (IF oi < Len(args.operations)
            THEN pc' = "combo" /\ zi' = zi /\ oi' = oi + 1
            ELSE IF zi < Len(args.zones)
                 THEN pc' = "combo" /\ zi' = zi + 1 /\ oi' = 1
                 ELSE pc' = "summary")]_vars

\* The second request of a combination failed after a listing of page 1 was
\* yielded and stored, and another combination remains.
C10_Witness ==
  /\ pc = "combo_end" /\ Len(reqLog) = 2
  /\ TransportFailed(reqLog[2])
  /\ listings_count >= 1 /\ store # {}
  /\ oi < Len(args.operations)

\* C11: transport failures are run errors. A finished run in which nothing
\* failed but page requests reports as many errors as requests that failed.
C11_TransportFailuresCounted ==
  (/\ pc = "returned" /\ args.entry = "all"
   /\ tally.malformed = 0 /\ tally.noid = 0 /\ tally.saveFail = 0)
    => stats.errors = tally.fetchFail

\* C12: write failures are ingestion errors. A finished run in which nothing
\* failed but writes to the store reports as many errors as writes that
\* failed.
C12_WriteFailuresCounted ==
  (/\ pc = "returned" /\ args.entry = "all"
   /\ tally.malformed = 0 /\ tally.noid = 0 /\ tally.fetchFail = 0)
    => stats.errors = tally.saveFail

\* C13: graceful shutdown. Once the run has been interrupted, its statistics
\* include every listing fetched so far, those of the combination that was
\* in progress included.
C13_GracefulShutdown ==
  pc = "interrupted" => stats.total_listings = tally.yielded

\* C14: records are never deleted. A natural key that has a record in the
\* store has one after every step, upserts and starts of the program alike.
C14_NeverDeleted ==
  [][\A r \in store : \E q \in store' : SameKey(r, q)]_vars

\* C15: a run always ends with its statistics. A run of
\* scrape_all_zones_operations that can take no further step has returned,
\* and what it returned carries the start and the end time.
C15_AlwaysReturnsStatistics ==
  /\ (args.entry = "all" /\ ~ENABLED Next) => pc = "returned"
  /\ (args.entry = "all" /\ pc = "returned")
       => (stats.start_time # None /\ stats.end_time # None)

\* C16: merge-by-key write. A successful save_listing_to_db(L) leaves exactly
\* one record for L's natural key, with every listing field equal to L's (a
\* null of L included) and ingested_at the time of the write; the record is
\* new when the key was absent and replaces the stored one when it was
\* present; the records of the other keys are untouched.
C16_MergeByKey ==
  [][(clock' = clock + 1 /\ lastSave' # None /\ Val(lastSave').ok)
     => LET L == Val(lastSave').listing
            rows == {r \in store' : SameKey(r, L)}
        IN /\ Cardinality(rows) = 1
           /\ \A r \in rows :
                /\ \A f \in DOMAIN L : r[f] = L[f]
                /\ r.ingested_at = clock'
           /\ Cardinality(store') =
                Cardinality(store) + (IF \E r \in store : SameKey(r, L) THEN 0 ELSE 1)
           /\ \A r \in store : ~SameKey(r, L) => r \in store']_vars

\* A listing with a price was stored, then the listing with the same key and
\* a null price was saved: the one record of the key has the null price and
\* the time of the second write.
C16_Witness ==
  /\ prevSave # None /\ lastSave # None
  /\ Val(prevSave).ok /\ Val(lastSave).ok
  /\ SameKey(Val(prevSave).listing, Val(lastSave).listing)
  /\ Val(prevSave).listing.price # None /\ Val(lastSave).listing.price = None
  /\ \E r \in store : SameKey(r, Val(lastSave).listing) /\ r.price = None
                       /\ r.ingested_at = clock
  /\ Cardinality(store) = 2

\* The pairs of "for zone_key in zones: for operation_key in operations", in
\* the order the loops visit them.
Product(zones, operations) ==
  [k \in 1..(Len(zones) * Len(operations)) |->
     <<zones[((k - 1) \div Len(operations)) + 1],
       operations[((k - 1) % Len(operations)) + 1]>>]

\* A run of scrape_all_zones_operations is over: it returned or it raised.
RunOver == args.entry = "all" /\ pc \in {"returned", "raised"}

\* C17: Cartesian product. The combinations attempted so far are the first
\* ones of the product of the requested zones and operations in zone-major
\* order, each once; while a combination is in progress it is the last one
\* attempted; and when the run is over every pair has been attempted and
\* total_zones_processed is |zones| x |operations|.
C17_CartesianProduct ==
  LET all == Product(args.zones, args.operations) IN
  args.entry = "all" =>
    /\ Len(attempted) <= Len(all)
    /\ attempted = SubSeq(all, 1, Len(attempted))
    /\ pc \in {"fetch", "items", "yielded", "saved", "page_end", "combo_end",
              "counted", "combo_exc", "zone_done"}
         => Len(attempted) = (zi - 1) * Len(args.operations) + oi
    /\ RunOver => (/\ attempted = all
                   /\ stats.total_zones_processed = Len(all))

\* A key of a direct call of fetch_listings_for_zone is not in the catalog.
UnknownKey ==
  \/ args.zones[1] \notin DOMAIN ZONES_CONFIG
  \/ args.operations[1] \notin DOMAIN OPERATION_TYPES

\* C18: unknown keys at the connector. fetch_listings_for_zone called with
\* an unknown zone or operation key issues no upstream request, yields
\* nothing and raises nothing: the caller's loop just ends.
C18_UnknownKeyEmptySequence ==
  (args.entry = "fetch" /\ UnknownKey)
    => (/\ reqLog = <<>> /\ served = 0
        /\ cyielded = 0 /\ listings_count = 0
        /\ pc \in {"call", "exhausted"})

\* The loop over fetch_listings_for_zone("capital_federal", "barter") has
\* ended.
C18_Witness ==
  /\ args.entry = "fetch" /\ pc = "exhausted"
  /\ args.zones[1] = "capital_federal" /\ args.operations[1] = "barter"
  /\ reqLog = <<>>

\* C19: the page cap for every integer. Whatever integer max_pages the
\* caller supplies, 0 included, a combination never has more requests than
\* max_pages.
C19_CapForEveryInteger ==
  args.max_pages # None => Len(reqLog) <= Val(args.max_pages)

\* C20: IngestionRun lifecycle. From the start of a run of
\* scrape_all_zones_operations the ingestion_runs table holds one record of
\* the run: "started" while the run is in progress, "completed" once it has
\* returned, "failed" once it has raised.
C20_IngestionRunLifecycle ==
  (args.entry = "all" /\ pc # "call")
    => (/\ Cardinality(ingestion_runs) = 1
        /\ \A r \in ingestion_runs :
             r.status = (IF pc = "returned" THEN "completed"
                         ELSE IF pc = "raised" THEN "failed" ELSE "started"))

\* C21: in a run of scrape_all_zones_operations the first page request of
\* every combination after the first one comes after a politeness delay that
\* followed the last request of the combination before it.
C21_InterCombinationDelay ==
  [][(/\ args.entry = "all"
      /\ Len(attempted) >= 2
      /\ reqLog = <<>>
      /\ reqLog' # <<>>) => slept > 0]_vars

\* C22: within one combination the i-th request of fetch_listings is for page
\* i, with limit 30 and offset (i - 1) * 30: pages 1, 2, 3, ... in order, each
\* requested once.
C22_ConsecutivePages ==
  \A i \in 1..Len(reqLog) :
    /\ reqLog[i].req.page = i
    /\ reqLog[i].req.offset = (i - 1) * 30
    /\ reqLog[i].req.limit = 30

\* Two pages of one combination have been requested.
C22_Witness ==
  /\ Len(reqLog) >= 2
  /\ reqLog[2].req.offset = 30

\* A request answered with a document whose listPostings is empty.
EmptyPage(e) ==
  /\ e.resp.status = "ok"
  /\ e.resp.listPostings = Some(0)

\* C23: a page with zero postings is the last request of its combination,
\* whatever its last-page flag and the page cap say: the generator is over.
C23_EmptyPageEndsPagination ==
  \A i \in 1..Len(reqLog) :
    EmptyPage(reqLog[i])
      => (i = Len(reqLog) /\ pc \in {"combo_end", "counted"})

\* An empty second page flagged as not the last one, in a run without a cap.
C23_Witness ==
  /\ args.max_pages = None
  /\ Len(reqLog) = 2
  /\ EmptyPage(reqLog[2])
  /\ reqLog[2].resp.paging = Paging(FALSE)
  /\ pc = "combo_end"

\* C24: a request for a further page of a combination is issued only after
\* a politeness delay that followed the request before it, and when the
\* pagination of a combination ends no delay has followed its final request.
C24_DelayBetweenPages ==
  [][/\ (reqLog # <<>> /\ Len(reqLog') = Len(reqLog) + 1) => slept > 0
     /\ (pc' = "combo_end" /\ reqLog' # <<>>) => slept' = 0]_vars

\* The listing field each feature code feeds.
FeatureField ==
  [CFT100 |-> "surface_total", CFT101 |-> "surface_covered",
   CFT1 |-> "rooms", CFT2 |-> "bedrooms", CFT3 |-> "bathrooms"]
\* The feature is a number or a numeric string (decimal digits with at most
\* one "."), not below zero.
ParsesNonNegative(feat) ==
  /\ feat.j = "obj"
  /\ \/ feat.v.t = "int" /\ feat.v.n >= 0
     \/ /\ feat.v.t = "str"
        /\ WithoutDots(feat.v.str) # <<>>
        /\ \A i \in 1..Len(feat.v.str) :
             feat.v.str[i] = 46 \/ IsDecimal(feat.v.str[i])
        /\ DotCount(feat.v.str) <= 1
\* Its value.
ParsedValue(feat) == Val(float(feat.v).value)
\* The field a feature should give: the number (floored for the three
\* counts), or absent.
ExpectedFeature(feat, key) ==
  IF ~ParsesNonNegative(feat) THEN None
  ELSE IF key \in {"CFT100", "CFT101"} THEN Some(ParsedValue(feat))
  ELSE IF ~IsFinite(ParsedValue(feat)) THEN None
  ELSE Some(Trunc(ParsedValue(feat)))
\* The posting with its mainFeatures member removed.
WithoutFeatures(posting) == [posting EXCEPT !.mainFeatures = JAbsent]

\* C25: a posting with a feature map, yielded when it has none, is yielded,
\* and each of its five feature fields is the number its feature parses to
\* when that is a non-negative number (0 included) and absent otherwise.
C25_FeatureExtraction ==
  (/\ nout.kind # "pending" /\ nraw.type = "dict"
   /\ nraw.mainFeatures.j = "obj"
   /\ \A k \in FeatureKeys : nraw.mainFeatures.v[k].j # "null"
   /\ Normalize(WithoutFeatures(nraw), clock).kind = "yield")
    => (/\ nout.kind = "yield"
        /\ \A k \in FeatureKeys :
             nout.listing[FeatureField[k]]
               = ExpectedFeature(nraw.mainFeatures.v[k], k))

\* The modified_date member is a string fromisoformat can read.
WellFormedStamp(m) ==
  /\ m.j = "obj" /\ m.v.t = "str"
  /\ m.v.str # <<>>
  /\ fromisoformat(FixOffset(m.v.str)).ok

\* C26: a listing yielded from a posting without a well-formed modified_date
\* has source_created_at and source_updated_at both set to the current time.
C26_TimestampsDefaultToNow ==
  (/\ nout.kind = "yield"
   /\ ~WellFormedStamp(nraw.modified_date))
    => (/\ nout.listing.source_created_at = Some(clock)
        /\ nout.listing.source_updated_at = Some(clock))

\* The amount member of the first entry of the prices list of the first entry
\* of priceOperationTypes; absent where the posting has no such entry.
FirstAmount(posting) ==
  LET op_types == posting.priceOperationTypes IN
  IF op_types.j # "obj" \/ op_types.v = <<>> THEN JAbsent
  ELSE IF op_types.v[1].j # "obj" THEN JAbsent
  ELSE LET prices == op_types.v[1].v.prices IN
    IF prices.j # "obj" \/ prices.v = <<>> THEN JAbsent
    ELSE IF prices.v[1].j # "obj" THEN JAbsent
    ELSE prices.v[1].v.amount
\* The doubles Python reads the amount strings of the postings as, each
\* written as Python prints it: 1e-400 is below every double but 0.0,
\* 1e400 above every finite one, and 9007199254740993 (2^53 + 1) lies
\* halfway between two doubles.
AmountsRead ==
  {<<<<49, 48, 48>>, Finite(FALSE, <<1>>, 2)>>,  \* "100" is 100.0
   <<<<45, 53>>, Finite(TRUE, <<5>>, 0)>>,  \* "-5" is -5.0
   <<<<45, 48, 46, 50, 53>>, Finite(TRUE, <<2, 5>>, -1)>>,  \* "-0.25" is -0.25
   <<<<49, 101, 45, 52, 48, 48>>, Finite(FALSE, <<>>, 0)>>,  \* "1e-400" is 0.0
   <<<<45, 49, 101, 45, 52, 48, 48>>, Finite(TRUE, <<>>, 0)>>,  \* "-1e-400" is -0.0
   <<<<49, 101, 52, 48, 48>>, Inf(1)>>,  \* "1e400" is inf
   <<<<45, 49, 101, 52, 48, 48>>, Inf(-1)>>,  \* "-1e400" is -inf
   <<<<49, 101, 53, 48, 48, 48, 48, 48, 48, 48, 48, 48>>, Inf(1)>>,  \* "1e5000000000" is inf
   <<<<57, 48, 48, 55, 49, 57, 57, 50, 53, 52, 55, 52, 48, 57, 57, 51>>,
     Finite(FALSE, <<9, 0, 0, 7, 1, 9, 9, 2, 5, 4, 7, 4, 0, 9, 9, 2>>, 15)>>}
     \* "9007199254740993" is 9007199254740992.0
\* The whole number n as a float: its digits without the zeros at the end,
\* and the exponent of the first of them.
WholeNumber(n) ==
  IF n = 0 THEN Finite(FALSE, <<>>, 0)
  ELSE LET size == CHOOSE k \in 1..10 : Pow10(k - 1) <= n /\ n < Pow10(k)
           zeros == CHOOSE z \in 0..size : n % Pow10(z) = 0 /\ (z = size \/ n % Pow10(z + 1) # 0)
       IN Finite(FALSE, [i \in 1..(size - zeros) |-> (n \div Pow10(size - i)) % 10],
                 size - 1)
\* The prices a posting with the amount member a may be yielded with: 0.0
\* without an amount, the int itself, the double of a numeric string; none
\* for a null, for a text that is not a number and for a NaN.
PricesFor(a) ==
  IF a.j = "absent" THEN {WholeNumber(0)}
  ELSE IF a.j = "obj" /\ a.v.t = "int"
  THEN (IF a.v.n >= 0 THEN {WholeNumber(a.v.n)}
        ELSE {[WholeNumber(0 - a.v.n) EXCEPT !.neg = TRUE]})
  ELSE IF a.j = "obj" /\ a.v.t = "str"
  THEN {p[2] : p \in {q \in AmountsRead : q[1] = a.v.str}}
  ELSE {}

\* C27: every yielded listing has a price that is not below zero (0.0, -0.0
\* and the positive infinity are not, a NaN is never yielded) and that is the
\* amount of the first entry of the prices list, read as a double, or 0.0
\* without one; a posting whose first amount reads as a number below zero is
\* not yielded.
C27_NonNegativePrice ==
  /\ nout.kind = "yield"
       => (/\ nout.listing.price # None
           /\ ~Negative(Val(nout.listing.price))
           /\ Val(nout.listing.price) # NaN
           /\ Val(nout.listing.price) \in PricesFor(FirstAmount(nraw)))
  /\ (/\ nout.kind # "pending" /\ nraw.type = "dict"
      /\ \E v \in PricesFor(FirstAmount(nraw)) : Negative(v)) => nout.kind # "yield"

\* A posting whose prices list has the amounts 100 and -5, in this order, has
\* been yielded with the price 100.0.
C27_Witness ==
  /\ nout.kind = "yield"
  /\ FirstAmount(nraw) = JObj(PyInt(100))
  /\ Len(nraw.priceOperationTypes.v[1].v.prices.v) = 2
  /\ nraw.priceOperationTypes.v[1].v.prices.v[2].j = "obj"
  /\ nraw.priceOperationTypes.v[1].v.prices.v[2].v.amount = JObj(PyInt(-5))
  /\ nout.listing.price = Some(Finite(FALSE, <<1>>, 2))

\* main() around scrape_all_zones_operations (main.py lines 116-150): the
\* value it returns to the shell for the way the run ended, and the
\* statistics it prints, which only the normal path does (lines 132-136).
MainExit == IF pc = "returned" THEN 0 ELSE 1
MainReport ==
  IF pc = "returned"
  THEN Some([total_listings |-> stats.total_listings,
             combinations |-> stats.total_operations_processed,
             errors |-> stats.errors])
  ELSE None

\* C28: when an exception has come out of scrape_all_zones_operations, main
\* ends with a non-zero status and has reported the statistics the scraper
\* holds at that point.
C28_StatisticsReportedOnFatalError ==
  (args.entry = "all" /\ pc = "raised")
    => (/\ MainExit # 0
        /\ MainReport = Some([total_listings |-> stats.total_listings,
                              combinations |-> stats.total_operations_processed,
                              errors |-> stats.errors]))

\* C29: with save_to_db = False the sink is never called and the store stays
\* as it was, and every listing the generator has yielded is counted once
\* the body of the loop has run for it; with either value of the flag a run
\* without an error returns the number of listings yielded as total_listings.
C29_PersistenceOff ==
  /\ ~args.save_to_db => (store = {} /\ lastSave = None /\ clock = 0)
  /\ ~args.save_to_db
       => listings_count = cyielded - (IF pc = "yielded" THEN 1 ELSE 0)
  /\ (args.entry = "all" /\ pc = "returned" /\ stats.errors = 0)
       => stats.total_listings = tally.yielded

\* A run with persistence off has returned two listings, the store empty.
C29_Witness ==
  /\ ~args.save_to_db
  /\ pc = "returned"
  /\ stats.total_listings = 2
  /\ tally.yielded = 2
  /\ store = {}

\* C30: a call of save_listing_to_db, committed or rolled back, leaves every
\* stored record of another natural key with the field values it had, and
\* creates no record of another key.
C30_OtherKeysUntouched ==
  [][clock' = clock + 1 =>
       LET L == Val(lastSave').listing
       IN /\ \A r \in store : ~SameKey(r, L) => r \in store'
          /\ \A q \in store' : ~SameKey(q, L) => q \in store]_vars

\* A committed call and then a failed one, with records of two keys stored.
C30_Witness ==
  /\ prevSave # None /\ Val(prevSave).ok
  /\ lastSave # None /\ ~Val(lastSave).ok
  /\ \E r \in store : ~SameKey(r, Val(lastSave).listing)
  /\ \E r \in store : ~SameKey(r, Val(prevSave).listing)

\* C31: the statistics the second call on a scraper returns are those of the
\* second call alone: one attempt for each combination of the call, each
\* completed or failed, and no more listings than the connector yielded
\* during the call, exactly that many when no combination failed.
C31_StatisticsOfThatRunOnly ==
  Len(returned_runs) = 2 =>
    LET first == returned_runs[1]
        second == returned_runs[2]
        during == second.yielded - first.yielded
    IN /\ second.stats.total_zones_processed = Combinations
       /\ second.stats.total_operations_processed + second.stats.errors
            = Combinations
       /\ second.stats.total_listings <= during
       /\ second.stats.errors = 0 => second.stats.total_listings = during

\* C32: when a run of scrape_all_zones_operations on a fresh scraper has
\* returned, total_listings is the number of listings the connector yielded
\* during the run, those of a combination that ended with an exception
\* included.
C32_EveryYieldedListingCounted ==
  (args.entry = "all" /\ pc = "returned")
    => stats.total_listings = tally.yielded

\* The responses of the log that carried a paging member.
WithPaging(log) ==
  {i \in 1..Len(log) : log[i].resp.status = "ok" /\ log[i].resp.paging.j # "absent"}
\* The paging member of the latest of them, that of a new connector when
\* there is none.
CombinationPaging(log) ==
  IF WithPaging(log) = {} THEN JObj([lastPage |-> JAbsent])
  ELSE LET last == CHOOSE i \in WithPaging(log) :
                     \A j \in WithPaging(log) : j <= i
       IN log[last].resp.paging

\* C33: after the postings of a page, whether the combination goes on to a
\* next page is decided by the pagination metadata received in this
\* combination, not by what an earlier combination left on the connector.
C33_PaginationStateDoesNotLeak ==
  pc = "page_end"
    => PageDecision(pagination_info) = PageDecision(CombinationPaging(reqLog))

\* The counters of one stats record are ordered: completed <= attempted <=
\* the number of combinations of the call.
CountersOrdered(st) ==
  /\ st.total_operations_processed <= st.total_zones_processed
  /\ st.total_zones_processed <= Combinations
\* No counter of the second record is below that of the first.
CountersGrow(st, nx) ==
  /\ nx.total_listings >= st.total_listings
  /\ nx.total_zones_processed >= st.total_zones_processed
  /\ nx.total_operations_processed >= st.total_operations_processed
  /\ nx.errors >= st.errors

\* C34: in every state of a run of scrape_all_zones_operations the
\* combinations completed are at most the combinations attempted, these at
\* most |zones| x |operations|, and no step lowers a counter of stats.
C34_CountersOrderedAndMonotonic ==
  [][args.entry = "all"
       => (/\ CountersOrdered(stats) /\ CountersOrdered(stats')
           /\ CountersGrow(stats, stats'))]_vars

\* C35: a call of save_listing_to_db that fails (it returns False) leaves
\* the table exactly as it was, and a call that commits right after a failed
\* one stores its record.
C35_FailedWriteLeavesStore ==
  [][clock' = clock + 1 =>
       /\ ~Val(lastSave').ok => store' = store
       /\ (lastSave # None /\ ~Val(lastSave).ok /\ Val(lastSave').ok)
            => ListingDB(Val(lastSave').listing, clock') \in store']_vars

\* The write of a listing failed with the table empty, and the next write of
\* the same listing went through.
C35_Witness ==
  /\ prevSave # None /\ ~Val(prevSave).ok
  /\ lastSave # None /\ Val(lastSave).ok
  /\ Val(prevSave).listing = Val(lastSave).listing
  /\ store = {ListingDB(Val(lastSave).listing, clock)}
  /\ clock = 2

\* C36: two listings UnifiedListing accepts get the same primary key only
\* when they have the same (platform, platform_listing_id), so the upsert of
\* one leaves the stored record of the other in place.
C36_KeyInjective ==
  nout.kind = "keys" =>
    /\ nout.a = nout.b => SameKey(nraw[1], nraw[2])
    /\ ~SameKey(nraw[1], nraw[2])
         => ListingDB(nraw[1], 1)
              \in save_listing_to_db({ListingDB(nraw[1], 1)}, nraw[2], 2, TRUE)

\* Keys computed for two listings of different platforms that share an
\* identifier holding the separator.
C36_Witness ==
  /\ nout.kind = "keys"
  /\ nraw[1].platform = "zonaprop" /\ nraw[2].platform = "mercadolibre"
  /\ nraw[1].platform_listing_id = "ar_1"
  /\ nraw[2].platform_listing_id = "ar_1"
  /\ nout.a # nout.b
====
